---------------------------- MODULE Spec2Model ----------------------------
(***************************************************************************)
(* Verification model of the quickjs-java native bridge (quickjslib):      *)
(*   - the reentrancy context stack  (context.rs, with_context)            *)
(*   - the boundary entry points that borrow a context handle              *)
(*     (context.rs, js_array.rs, js_object.rs, foreign_function.rs)        *)
(*   - the host -> script converter  (java_js_proxy.rs)                    *)
(*   - the script -> host converter  (js_java_proxy.rs)                    *)
(*                                                                         *)
(* The specifications share the variables:                                 *)
(*   Spec         the boundary operations, nested through host callbacks   *)
(*   SpecEval     reentrant eval through a host function, with fairness    *)
(*   SpecConv     the two value converters applied to bounded inputs       *)
(*   SpecHandles  script values exported to the host as handle wrappers    *)
(*   SpecInvoke   invoke of a script function by a dotted name             *)
(*   SpecCallback host callables called from script, the exception bridge  *)
(*   SpecLife     handles, boxes and the engine's reference counts         *)
(*   SpecArray    insert into and remove from a script array               *)
(*   SpecThreads  with_context on two host threads                         *)
(*   SpecLocale   the temporary numeric locale (with_locale.rs)            *)
(*   SpecSet      set global, array set and object set of host maps        *)
(***************************************************************************)
EXTENDS Integers, Sequences, FiniteSets, TLC

\* ------------------------------------------------------------------ bounds
\* Number of context handles the host may create.
NumContexts == 2
\* Maximal number of nested native frames (boundary calls and callbacks) per thread.
MaxDepth == 4

Contexts == 1..NumContexts
\* CONTEXT_STACK is thread_local (context.rs 17-19): every thread has a stack of its
\* own. The specifications below follow the nesting of calls on one host thread.
Threads == {1}

VARIABLES
    ctxBox,     \* context handle -> "live" | "dropped" | "closed"
    ctxStack,   \* thread -> CONTEXT_STACK: sequence of [ptr, scope]
    engine,     \* context -> 0 (no engine scope open) or the thread holding it
    frames,     \* thread -> native frames in progress (boundary calls, callbacks)
    fault,      \* thread -> [kind: "none" | "deadlock" | "scope_panic" | "abort", op, ctx]
    last,       \* thread -> the last finished boundary call: op, exit path, stack effect
    run,        \* SpecEval: the reentrant evaluation in progress and its result
    heap,       \* SpecConv: the engine's objects (arrays, objects, functions) by reference
    handles,    \* SpecConv: the boxed values the host holds handles to
    cv          \* SpecConv: the conversion last applied, with its input and output

vars == <<ctxBox, ctxStack, engine, frames, fault, last, run, heap, handles, cv>>

\* ------------------------------------------------------------ operations
\* The boundary operations, by the way each obtains its execution scope.
\* with_context: context.rs 118, 293, 333, 390; js_array.rs 39, 63
WithContextOps == {"eval", "evalBuffer", "getGlobal", "setGlobal", "invoke", "arrayOp"}
\* Context::with called directly: js_object.rs 28, 62
DirectWithOps == {"objectOp"}
\* no scope requested, the function's stored Ctx is used: foreign_function.rs 72
StoredCtxOps == {"callFunction"}
\* operations during which script code runs and may call a host callable
ScriptOps == {"eval", "evalBuffer", "invoke", "callFunction"}
\* operations that unbox the context handle (ptr_to_context) and must rebox it
UnboxingOps == WithContextOps \cup DirectWithOps
BoundaryOps == WithContextOps \cup DirectWithOps \cup StoredCtxOps

NoScope == [t |-> 0, at |-> 0]

\* A lookup that never finds the context.
FindEntryNever(stack, ptr) == 0

\* CONTEXT_STACK.iter().rev().find(|(ptr, _)| *ptr == context_ptr): the index of the
\* last entry for ptr, 0 when there is none.
FindEntry(stack, ptr) ==
    LET hits == {i \in 1..Len(stack) : stack[i].ptr = ptr}
    IN  IF hits = {} THEN 0 ELSE CHOOSE i \in hits : \A j \in hits : j <= i

\* A pop that is written after the call of f instead of in a guard's drop.
PopOnReturnOnly(stack, how) ==
    IF Len(stack) = 0 \/ how = "unwind" THEN stack ELSE SubSeq(stack, 1, Len(stack) - 1)

\* A drop that removes the oldest entry instead of the newest.
DropOldest(stack, how) ==
    IF Len(stack) = 0 THEN stack ELSE SubSeq(stack, 2, Len(stack))

\* The guard's drop: CONTEXT_STACK.pop(), on normal return and on unwind alike.
GuardDrop(stack, how) ==
    IF Len(stack) = 0 THEN stack ELSE SubSeq(stack, 1, Len(stack) - 1)

\* A with_context that pushes an entry for every call, also when it reuses a scope.
PushAlways(t, c, stack, at) ==
    LET i == FindEntry(stack, c)
        s == IF i # 0 THEN stack[i].scope ELSE [t |-> t, at |-> at]
    IN  [stack |-> Append(stack, [ptr |-> c, scope |-> s]),
         scope |-> s, pushed |-> TRUE, opened |-> (i = 0)]

\* with_context up to the call of f: the stack, the scope handed to f, whether an
\* entry was pushed and whether the engine was asked to open a scope.
WithContextEnter(t, c, stack, at) ==
    LET i == FindEntry(stack, c)
    IN  IF i # 0
        THEN [stack |-> stack, scope |-> stack[i].scope, pushed |-> FALSE, opened |-> FALSE]
        ELSE LET s == [t |-> t, at |-> at]
             IN  [stack |-> Append(stack, [ptr |-> c, scope |-> s]),
                  scope |-> s, pushed |-> TRUE, opened |-> TRUE]

\* with_context after f: the guard pops the entry the call pushed.
WithContextExit(stack, pushed, how) ==
    IF pushed THEN GuardDrop(stack, how) ELSE stack

\* ------------------------------------------------------------ Spec: state
NoFault == [kind |-> "none", op |-> "none", ctx |-> 0]
NoCall == [op |-> "none", ctx |-> 0, how |-> "none", pushed |-> FALSE,
           reused |-> FALSE, saved |-> <<>>, after |-> <<>>]

Top(t) == frames[t][Len(frames[t])]
Pop(seq) == SubSeq(seq, 1, Len(seq) - 1)

\* The process is gone once a panic reached an extern "system" boundary.
Aborted == \E t \in Threads : fault[t].kind = "abort"

\* Host code of thread t is running: at top level, or inside a host callable that
\* script called (java_js_proxy.rs 460-483).
HostRuns(t) ==
    /\ ~Aborted
    /\ fault[t].kind = "none"
    /\ \/ frames[t] = <<>>
       \/ /\ frames[t] # <<>>
          /\ Len(frames[t]) < MaxDepth
          /\ Top(t).op = "callback"

\* The host keeps a context on one thread at a time (spec section 5).
Confined(t, c) == engine[c] \in {0, t} /\
    \A u \in Threads \ {t} : \A i \in 1..Len(frames[u]) : frames[u][i].ctx # c

InitCommon ==
    /\ ctxBox = [c \in Contexts |-> "live"]
    /\ ctxStack = [t \in Threads |-> <<>>]
    /\ engine = [c \in Contexts |-> 0]
    /\ frames = [t \in Threads |-> <<>>]
    /\ fault = [t \in Threads |-> NoFault]
    /\ last = [t \in Threads |-> NoCall]

\* The parts of the state a specification does not use.
NoRun == [state |-> "idle"]
NoConv == [op |-> "none"]
InitIdle ==
    /\ run = NoRun
    /\ heap = <<>>
    /\ handles = <<>>
    /\ cv = NoConv

\* closeContext: context.rs 94-102. The host closes a context it is not using.
CloseContext(c) ==
    /\ ~Aborted
    /\ ctxBox[c] = "live"
    /\ engine[c] = 0
    /\ \A t \in Threads : \A i \in 1..Len(frames[t]) : frames[t][i].ctx # c
    /\ ctxBox' = [ctxBox EXCEPT ![c] = "closed"]
    /\ UNCHANGED <<ctxStack, engine, frames, fault, last>>

\* Context::with asked for a context whose scope is already open: the engine's
\* guard blocks for ever or panics, depending on the build of the engine.
ScopeFaults == {"deadlock", "scope_panic"}

\* An entry point built on with_context, up to the call of the closure:
\* ptr_to_context, with_context (context.rs 112-118, 274-293, 330-333, 384-390;
\* js_array.rs 36-39).
CallWithContext(t, op, c) ==
    /\ op \in WithContextOps
    /\ HostRuns(t)
    /\ ctxBox[c] = "live"
    /\ Confined(t, c)
    /\ LET r == WithContextEnter(t, c, ctxStack[t], Len(frames[t]) + 1)
       IN  IF r.opened /\ engine[c] # 0
           THEN /\ \E k \in ScopeFaults : fault' = [fault EXCEPT ![t] = [kind |-> k, op |-> op, ctx |-> c]]
                /\ UNCHANGED <<ctxBox, ctxStack, engine, frames, last>>
           ELSE /\ frames' = [frames EXCEPT ![t] = Append(@,
                        [op |-> op, ctx |-> c, pushed |-> r.pushed, opened |-> r.opened,
                         scope |-> r.scope, saved |-> ctxStack[t]])]
                /\ ctxStack' = [ctxStack EXCEPT ![t] = r.stack]
                /\ engine' = IF r.opened THEN [engine EXCEPT ![c] = t] ELSE engine
                /\ UNCHANGED <<ctxBox, fault, last>>

\* with_object: ptr_to_persistent, get_context_from_quickjs_context, context.with
\* (js_object.rs 25-28).
CallObjectOp(t, c) ==
    /\ HostRuns(t)
    /\ ctxBox[c] = "live"
    /\ Confined(t, c)
    /\ IF engine[c] # 0
       THEN /\ \E k \in ScopeFaults :
                 fault' = [fault EXCEPT ![t] = [kind |-> k, op |-> "objectOp", ctx |-> c]]
            /\ UNCHANGED <<ctxBox, ctxStack, engine, frames, last>>
       ELSE /\ frames' = [frames EXCEPT ![t] = Append(@,
                    [op |-> "objectOp", ctx |-> c, pushed |-> FALSE, opened |-> TRUE,
                     scope |-> [t |-> t, at |-> Len(frames[t]) + 1], saved |-> ctxStack[t]])]
            /\ engine' = [engine EXCEPT ![c] = t]
            /\ UNCHANGED <<ctxBox, ctxStack, fault, last>>

\* callFunction: ptr_to_function, then invoke_js_function_with_java_parameters with
\* func.ctx() (foreign_function.rs 56-58, 72).
CallFunction(t, c) ==
    /\ HostRuns(t)
    /\ ctxBox[c] = "live"
    /\ Confined(t, c)
    /\ frames' = [frames EXCEPT ![t] = Append(@,
            [op |-> "callFunction", ctx |-> c, pushed |-> FALSE, opened |-> FALSE,
             scope |-> NoScope, saved |-> ctxStack[t]])]
    /\ UNCHANGED <<ctxBox, ctxStack, engine, fault, last>>

\* setGlobal when from_object fails: the early return of context.rs 281-290, taken
\* after ptr_to_context (274) and before context_to_ptr (305).
SetGlobalMarshalFails(t, c) ==
    /\ HostRuns(t)
    /\ ctxBox[c] = "live"
    /\ Confined(t, c)
    /\ ctxBox' = [ctxBox EXCEPT ![c] = "dropped"]
    /\ last' = [last EXCEPT ![t] = [op |-> "setGlobal", ctx |-> c, how |-> "marshal_error",
                                    pushed |-> FALSE, reused |-> FALSE,
                                    saved |-> ctxStack[t], after |-> ctxStack[t]]]
    /\ UNCHANGED <<ctxStack, engine, frames, fault>>

\* evalBuffer with a null buffer address: context.rs 362-364.
EvalBufferNull(t, c) ==
    /\ HostRuns(t)
    /\ ctxBox[c] = "live"
    /\ last' = [last EXCEPT ![t] = [op |-> "evalBuffer", ctx |-> c, how |-> "ok",
                                    pushed |-> FALSE, reused |-> FALSE,
                                    saved |-> ctxStack[t], after |-> ctxStack[t]]]
    /\ UNCHANGED <<ctxBox, ctxStack, engine, frames, fault>>

\* The exit paths of a boundary call.
ExitPaths(op) ==
    {"ok", "unwind"}
    \cup (IF op \in {"arrayOp", "objectOp"} THEN {} ELSE {"script_exception"})
    \cup (IF op = "invoke" THEN {"boundary_error"} ELSE {})

\* What the end of an entry point does with the Box<Context> it took: context_to_ptr
\* on every path that reaches the end of the function (context.rs 132, 305, 346, 453;
\* js_array.rs 48; js_object.rs 37); the box is a local that is dropped when the
\* closure panics.
Rebox(op, how, box) ==
    IF op \in UnboxingOps /\ how = "unwind" THEN "dropped" ELSE box

\* The closure of a boundary call returns or panics: the guard pops, the engine
\* scope is left, the context is reboxed.
Return(t, how) ==
    /\ ~Aborted
    /\ fault[t].kind = "none"
    /\ frames[t] # <<>>
    /\ Top(t).op \in BoundaryOps
    /\ how \in ExitPaths(Top(t).op)
    /\ LET f == Top(t)
           after == WithContextExit(ctxStack[t], f.pushed, how)
       IN  /\ ctxStack' = [ctxStack EXCEPT ![t] = after]
           /\ engine' = IF f.opened THEN [engine EXCEPT ![f.ctx] = 0] ELSE engine
           /\ ctxBox' = [ctxBox EXCEPT ![f.ctx] = Rebox(f.op, how, @)]
           /\ frames' = [frames EXCEPT ![t] = Pop(@)]
           /\ fault' = IF how = "unwind"
                       THEN [fault EXCEPT ![t] = [kind |-> "abort", op |-> f.op, ctx |-> f.ctx]]
                       ELSE fault
           /\ last' = [last EXCEPT ![t] = [op |-> f.op, ctx |-> f.ctx, how |-> how,
                                           pushed |-> f.pushed,
                                           reused |-> (f.op \in WithContextOps /\ ~f.pushed),
                                           saved |-> f.saved, after |-> after]]

\* Script running in a boundary call calls a host callable that was set as a global:
\* the closure of from_function and its siblings (java_js_proxy.rs 341, 388, 428, 460, 499).
ScriptCallsHost(t) ==
    /\ ~Aborted
    /\ fault[t].kind = "none"
    /\ frames[t] # <<>>
    /\ Len(frames[t]) < MaxDepth
    /\ Top(t).op \in ScriptOps
    /\ frames' = [frames EXCEPT ![t] = Append(@,
            [op |-> "callback", ctx |-> Top(t).ctx, pushed |-> FALSE, opened |-> FALSE,
             scope |-> Top(t).scope, saved |-> ctxStack[t]])]
    /\ UNCHANGED <<ctxBox, ctxStack, engine, fault, last>>

\* The host callable returns (a value or a host exception) to the script that called it
\* (java_js_proxy.rs 474-482).
HostReturns(t) ==
    /\ ~Aborted
    /\ fault[t].kind = "none"
    /\ frames[t] # <<>>
    /\ Top(t).op = "callback"
    /\ frames' = [frames EXCEPT ![t] = Pop(@)]
    /\ UNCHANGED <<ctxBox, ctxStack, engine, fault, last>>

\* Every context of the model has been created (context.rs 66-81) and not yet used.
Init == InitCommon /\ InitIdle

\* The bridge's calls change nothing of the conversion and evaluation state.
Idle == UNCHANGED <<run, heap, handles, cv>>

Next ==
    \/ \E c \in Contexts : CloseContext(c) /\ Idle
    \/ \E t \in Threads, c \in Contexts, op \in WithContextOps :
          CallWithContext(t, op, c) /\ Idle
    \/ \E t \in Threads, c \in Contexts : CallObjectOp(t, c) /\ Idle
    \/ \E t \in Threads, c \in Contexts : CallFunction(t, c) /\ Idle
    \/ \E t \in Threads, c \in Contexts : SetGlobalMarshalFails(t, c) /\ Idle
    \/ \E t \in Threads, c \in Contexts : EvalBufferNull(t, c) /\ Idle
    \/ \E t \in Threads, how \in {"ok", "unwind", "script_exception", "boundary_error"} :
          Return(t, how) /\ Idle
    \/ \E t \in Threads : ScriptCallsHost(t) /\ Idle
    \/ \E t \in Threads : HostReturns(t) /\ Idle

Spec == Init /\ [][Next]_vars

\* ------------------------------------------------------- claims under Spec
HasEntry(stack, ptr) == \E k \in 1..Len(stack) : stack[k].ptr = ptr

\* C1: every entry point that borrows a context handle (get global, set global,
\* eval, eval-buffer, invoke) returns with the handle still denoting the live
\* context on every exit path (success, script exception, boundary error, failure
\* to marshal the host value): as long as no panic occurred, no context is
\* destroyed by an operation other than close.
C1_ContextSurvivesEveryExit ==
    (\A t \in Threads : fault[t].kind # "abort")
        => \A c \in Contexts : ctxBox[c] # "dropped"

\* C2: every boundary operation that executes in a context resolves it through the
\* reentrancy stack: while the operation runs, its context has an entry on the
\* thread's stack and the operation uses that entry's scope; the engine is never
\* asked to open a scope for a context whose scope is already open.
C2_EveryOperationResolvesThroughStack ==
    \A t \in Threads :
        /\ fault[t].kind \notin ScopeFaults
        /\ \A i \in 1..Len(frames[t]) :
              frames[t][i].op \in BoundaryOps =>
                 \E k \in 1..Len(ctxStack[t]) :
                    /\ ctxStack[t][k].ptr = frames[t][i].ctx
                    /\ ctxStack[t][k].scope = frames[t][i].scope

\* C3: with_context called while the same context already has an entry on the
\* thread's stack invokes f with the scope stored in that entry, does not ask the
\* engine for a new scope, and neither pushes nor pops a stack entry.
C3_ReentrantCallReusesScope ==
    \A t \in Threads :
        /\ \A i \in 1..Len(frames[t]) :
              LET f == frames[t][i]
              IN  (f.op \in WithContextOps /\ HasEntry(f.saved, f.ctx)) =>
                     /\ ~f.pushed
                     /\ ~f.opened
                     /\ \E k \in 1..Len(f.saved) :
                           f.saved[k].ptr = f.ctx /\ f.saved[k].scope = f.scope
                     /\ (i = Len(frames[t]) => ctxStack[t] = f.saved)
        /\ (fault[t].kind \in ScopeFaults /\ fault[t].op \in WithContextOps)
              => ~HasEntry(ctxStack[t], fault[t].ctx)
        /\ (last[t].op \in WithContextOps /\ HasEntry(last[t].saved, last[t].ctx))
              => /\ ~last[t].pushed
                 /\ last[t].after = last[t].saved

\* A reentrant with_context call has run f and returned.
C3_Witness ==
    \E t \in Threads :
        /\ last[t].op \in WithContextOps
        /\ HasEntry(last[t].saved, last[t].ctx)
        /\ last[t].how = "ok"

\* C4: the entry pushed by a with_context call that found no entry is removed when
\* the call exits, by return or by unwinding; the thread's stack after the call is
\* the stack before the call.
C4_PushedEntryIsPopped ==
    \A t \in Threads :
        (last[t].op \in WithContextOps /\ ~HasEntry(last[t].saved, last[t].ctx))
            => last[t].after = last[t].saved

\* A with_context call that pushed below another context's entry has unwound.
C4_Witness ==
    \E t \in Threads :
        /\ last[t].op \in WithContextOps
        /\ last[t].pushed
        /\ last[t].how = "unwind"
        /\ last[t].saved # <<>>


\* ------------------------------------------------- SpecConv: the two value domains
\* Host classes are named by their simple name. The bridge's own classes (QuickJSArray,
\* QuickJSObject, QuickJSFunction, VariadicFunction) live in one host package, written
\* io/github/stefanrichterhuber/quickjs in java_js_proxy.rs and
\* com/github/stefanrichterhuber/quickjs in js_java_proxy.rs.

\* A 64-bit integer (jlong, i64) is four 16-bit limbs, least significant first, in
\* two's complement.
LimbBase == 2^16
I64Limbs == 4
LimbSamples == {0, 32767, 65535}

\* 2^53, 2^53 + 1 and 2^63 - 1
TwoTo53 == [i \in 1..I64Limbs |-> IF i = 4 THEN 32 ELSE 0]
TwoTo53Plus1 == [i \in 1..I64Limbs |-> IF i = 4 THEN 32 ELSE IF i = 1 THEN 1 ELSE 0]
MaxI64 == [i \in 1..I64Limbs |-> IF i = 4 THEN 32767 ELSE 65535]
I64Samples == [1..I64Limbs -> LimbSamples] \cup {TwoTo53, TwoTo53Plus1}

\* The low 32 bits of a 64-bit integer, sign-extended: what a narrowing to int keeps.
NarrowToInt(limbs) ==
    [i \in 1..I64Limbs |-> IF i <= 2 THEN limbs[i]
                           ELSE IF limbs[2] >= LimbBase \div 2 THEN LimbBase - 1 ELSE 0]

\* A conversion that stops at the largest 64-bit integer instead of wrapping.
SaturateToI64(limbs) ==
    IF \E i \in (I64Limbs + 1)..Len(limbs) : limbs[i] # 0
    THEN MaxI64
    ELSE [i \in 1..I64Limbs |-> limbs[i]]

\* Long.longValue(), BigInteger.longValue() (java_js_proxy.rs 689, 701): the 64 low bits.
LongValue(limbs) == [i \in 1..I64Limbs |-> limbs[i]]

\* A host value: its class and, by class, a boolean, an int, a text (a string, the
\* digits of a double, the textual representation of any other object), the limbs of
\* an integer, the items of a sequence, the entries of a map or the address in the ptr
\* field of a wrapper.
HostNull == [cls |-> "null", b |-> FALSE, i |-> 0, s |-> "", l |-> <<>>,
             items |-> <<>>, entries |-> <<>>, ptr |-> 0]
HBool(x) == [HostNull EXCEPT !.cls = "Boolean", !.b = x]
HInt(x) == [HostNull EXCEPT !.cls = "Integer", !.i = x]
HLong(x) == [HostNull EXCEPT !.cls = "Long", !.l = x]
HBigInteger(x) == [HostNull EXCEPT !.cls = "BigInteger", !.l = x]
HText(cls, x) == [HostNull EXCEPT !.cls = cls, !.s = x]
HList(cls, xs) == [HostNull EXCEPT !.cls = cls, !.items = xs]
HMap(es) == [HostNull EXCEPT !.cls = "HashMap", !.entries = es]
HWrapper(cls, p) == [HostNull EXCEPT !.cls = cls, !.ptr = p]
NoHV == [HostNull EXCEPT !.cls = "none"]

\* The classes and interfaces a host object is an instance of.
Supertypes(cls) ==
    CASE cls = "ArrayList"        -> {"ArrayList", "Iterable"}
      [] cls = "BrokenIterable"   -> {"BrokenIterable", "Iterable"}
      [] cls = "HashMap"          -> {"HashMap", "Map"}
      [] cls = "QuickJSArray"     -> {"QuickJSArray", "Iterable"}
      [] cls = "QuickJSObject"    -> {"QuickJSObject", "Map"}
      [] cls = "QuickJSFunction"  -> {"QuickJSFunction", "VariadicFunction", "Function"}
      [] cls = "VariadicLambda"   -> {"VariadicFunction", "Function"}
      [] cls = "SupplierFunction" -> {"Supplier", "Function"}
      [] OTHER                    -> {cls}

\* A test for the class of the object itself, blind to what it extends or implements.
IsExactly(class, obj) == class = obj.cls

\* is_instance_of: java_js_proxy.rs 128-145.
IsInstanceOf(class, obj) == class \in Supertypes(obj.cls)

\* is_array: java_js_proxy.rs 150-154.
IsArray(obj) == obj.cls = "ObjectArray"

\* The host primitives the inputs are drawn from.
I32Samples == {-2147483647 - 1, -1, 0, 41, 2147483647}
DoubleSamples == {"0.0", "3.1232", "42.0", "9007199254740992.0"}
StringSamples == {"", "a", "41"}
PrimitiveClasses == {"Boolean", "Integer", "Long", "Double", "String"}

PrimitiveHostValues ==
    {HBool(x) : x \in BOOLEAN}
    \cup {HInt(x) : x \in I32Samples}
    \cup {HLong(x) : x \in I64Samples}
    \cup {HText("Double", x) : x \in DoubleSamples}
    \cup {HText("String", x) : x \in StringSamples}

\* Host values the bridge has no capability for, each with its textual representation,
\* and host objects one of whose methods throws.
UnrecognizedClasses == {"Short", "UUID"}
OtherHostValues ==
    {HText("Short", "7"), HText("UUID", "123e4567"), HText("Float", "1.5"),
     HBigInteger([i \in 1..5 |-> IF i = 5 THEN 1 ELSE 0]),
     HBigInteger([i \in 1..5 |-> IF i = 4 THEN 32768 ELSE 0]),
     HBigInteger([i \in 1..5 |-> IF i = 5 THEN 1 ELSE IF i = 1 THEN 41 ELSE 0]),
     HBigInteger(MaxI64), HText("BigDecimal", "1.5"),
     HText("BrokenObject", "toString throws"), HList("BrokenIterable", <<>>)}

CallableClasses == {"Function", "Consumer", "BiFunction", "BiConsumer", "Supplier",
                    "VariadicLambda", "SupplierFunction"}
CallableHostValues == {HText(c, "lambda") : c \in CallableClasses}

\* Sequences, maps and arrays, flat and nested once.
FlatItems == {HostNull, HInt(41), HLong(TwoTo53), HText("String", "a"),
              HText("BrokenObject", "toString throws")}
FlatCollections ==
    {HList("ArrayList", <<>>), HMap(<<>>)}
    \cup {HList("ArrayList", <<x>>) : x \in FlatItems}
    \cup {HList("ArrayList", <<HInt(41), x>>) : x \in FlatItems}
    \cup {HList("ObjectArray", <<x>>) : x \in FlatItems}
    \cup {HMap(<<[key |-> k, value |-> x]>>) :
             k \in {HText("String", "a"), HInt(41), HLong(TwoTo53)}, x \in FlatItems}
NestedCollections ==
    {HList("ArrayList", <<x>>) : x \in FlatCollections}
    \cup {HMap(<<[key |-> HText("String", "a"), value |-> x]>>) : x \in FlatCollections}
HostInputs ==
    {HostNull} \cup PrimitiveHostValues \cup OtherHostValues \cup CallableHostValues
    \cup FlatCollections \cup NestedCollections

\* ------------------------------------------------- host -> script: from_object
\* ProxiedJavaValue (java_js_proxy.rs 107-125): the variant and, by variant, its field.
NoPV == [k |-> "none", b |-> FALSE, i |-> 0, s |-> "", l |-> <<>>,
         items |-> <<>>, entries |-> <<>>, ptr |-> 0]
PV(k) == [NoPV EXCEPT !.k = k]
Ok(pv) == [ok |-> TRUE, pv |-> pv]
\* jni::errors::Result::Err: a pending host exception or a failed JNI call.
Err(what) == [ok |-> FALSE, pv |-> [PV("Err") EXCEPT !.s = what]]

\* Methods of host objects that throw when the bridge calls them.
Throws(obj, method) ==
    \/ obj.cls = "BrokenObject" /\ method = "toString"
    \/ obj.cls = "BrokenIterable" /\ method = "iterator"

RECURSIVE FromObject(_)
RECURSIVE IteratorCollect(_)
RECURSIVE EntriesCollect(_)

\* iterator_collect (java_js_proxy.rs 552-576) with from_object as for_each: the first
\* failing item fails the collection.
IteratorCollect(items) ==
    IF items = <<>> THEN [ok |-> TRUE, items |-> <<>>]
    ELSE LET first == FromObject(Head(items))
         IN  IF ~first.ok THEN [ok |-> FALSE, items |-> <<>>]
             ELSE LET rest == IteratorCollect(Tail(items))
                  IN  IF ~rest.ok THEN rest
                      ELSE [ok |-> TRUE, items |-> <<first.pv>> \o rest.items]

\* iterator_collect with from_map_entry (java_js_proxy.rs 534-549) as for_each.
EntriesCollect(entries) ==
    IF entries = <<>> THEN [ok |-> TRUE, entries |-> <<>>]
    ELSE LET key == FromObject(Head(entries).key)
             value == FromObject(Head(entries).value)
         IN  IF ~key.ok \/ ~value.ok THEN [ok |-> FALSE, entries |-> <<>>]
             ELSE LET rest == EntriesCollect(Tail(entries))
                  IN  IF ~rest.ok THEN rest
                      ELSE [ok |-> TRUE,
                            entries |-> <<[key |-> key.pv, value |-> value.pv]>>
                                        \o rest.entries]

\* A conversion of sequences that copies the items of every Iterable.
FromIterableCopy(obj) ==
    LET c == IteratorCollect(obj.items)
    IN  IF c.ok THEN Ok([PV("Array") EXCEPT !.items = c.items]) ELSE Err("JavaException")

\* from_iterable: java_js_proxy.rs 267-298.
FromIterable(obj) ==
    IF IsInstanceOf("QuickJSArray", obj) THEN Ok([PV("NativeArray") EXCEPT !.ptr = obj.ptr])
    ELSE IF Throws(obj, "iterator") THEN Err("JavaException")
    ELSE LET c == IteratorCollect(obj.items)
         IN  IF c.ok THEN Ok([PV("Array") EXCEPT !.items = c.items])
             ELSE Err("JavaException")

\* from_map: java_js_proxy.rs 579-619.
FromMap(obj) ==
    IF IsInstanceOf("QuickJSObject", obj) THEN Ok([PV("NativeObject") EXCEPT !.ptr = obj.ptr])
    ELSE LET c == EntriesCollect(obj.entries)
         IN  IF c.ok THEN Ok([PV("Map") EXCEPT !.entries = c.entries])
             ELSE Err("JavaException")

\* from_array: java_js_proxy.rs 243-264.
FromArray(obj) ==
    LET c == IteratorCollect(obj.items)
    IN  IF c.ok THEN Ok([PV("Array") EXCEPT !.items = c.items]) ELSE Err("JavaException")

\* from_object: java_js_proxy.rs 623-712, the checks in the order of the code. A host
\* callable becomes a closure over the host object (its text names it).
FromObject(obj) ==
    IF obj.cls = "null" THEN Ok(PV("Null"))
    ELSE IF IsInstanceOf("Boolean", obj) THEN Ok([PV("Bool") EXCEPT !.b = obj.b])
    ELSE IF IsInstanceOf("Integer", obj) THEN Ok([PV("Int") EXCEPT !.i = obj.i])
    ELSE IF IsInstanceOf("String", obj) THEN Ok([PV("String") EXCEPT !.s = obj.s])
    ELSE IF IsInstanceOf("Double", obj) \/ IsInstanceOf("Float", obj)
         THEN Ok([PV("Double") EXCEPT !.s = obj.s])
    ELSE IF IsInstanceOf("Iterable", obj) THEN FromIterable(obj)
    ELSE IF IsInstanceOf("Map", obj) THEN FromMap(obj)
    ELSE IF IsInstanceOf("QuickJSFunction", obj)
         THEN Ok([PV("JSFunction") EXCEPT !.ptr = obj.ptr])
    ELSE IF IsInstanceOf("VariadicFunction", obj)
         THEN Ok([PV("VarFunction") EXCEPT !.s = obj.s])
    ELSE IF IsInstanceOf("Consumer", obj) THEN Ok([PV("Function") EXCEPT !.s = obj.s])
    ELSE IF IsInstanceOf("BiConsumer", obj) THEN Ok([PV("BiFunction") EXCEPT !.s = obj.s])
    ELSE IF IsInstanceOf("BiFunction", obj) THEN Ok([PV("BiFunction") EXCEPT !.s = obj.s])
    ELSE IF IsInstanceOf("Supplier", obj) THEN Ok([PV("Supplier") EXCEPT !.s = obj.s])
    ELSE IF IsInstanceOf("Function", obj) THEN Ok([PV("Function") EXCEPT !.s = obj.s])
    ELSE IF IsArray(obj) THEN FromArray(obj)
    ELSE IF IsInstanceOf("BigInteger", obj)
         THEN Ok([PV("BigInteger") EXCEPT !.l = LongValue(obj.l)])
    ELSE IF IsInstanceOf("BigDecimal", obj) THEN Ok([PV("BigDecimal") EXCEPT !.s = obj.s])
    ELSE IF IsInstanceOf("Long", obj)
         THEN Ok([PV("BigInteger") EXCEPT !.l = LongValue(obj.l)])
    ELSE IF Throws(obj, "toString") THEN Err("JavaException")
    ELSE Ok([PV("String") EXCEPT !.s = obj.s])

\* ------------------------------------------------- host -> script: into_js
\* A script value: its tag and, by tag, a boolean, an int, a text (a string, the
\* digits of a float), a big-integer of arbitrary precision (a sign and a magnitude)
\* or the reference of an engine object (array, object, function).
NoSV == [tag |-> "none", b |-> FALSE, i |-> 0, s |-> "", neg |-> FALSE, mag |-> <<>>,
         ref |-> 0]
SV(tag) == [NoSV EXCEPT !.tag = tag]
SRef(tag, r) == [NoSV EXCEPT !.tag = tag, !.ref = r]
RefTags == {"array", "object", "function"}
JsErr(e) == [ok |-> FALSE, val |-> [SV("exception") EXCEPT !.s = e], fresh |-> <<>>]
JsOk(val, fresh) == [ok |-> TRUE, val |-> val, fresh |-> fresh]

\* An engine object: its kind, its elements (array) and its properties (object).
Obj(kind, items, props) == [kind |-> kind, items |-> items, props |-> props]

\* An into_atom that makes a property name of any value.
IntoAtomAny(pv) == [ok |-> TRUE, atom |-> pv]

\* into_atom: java_js_proxy.rs 715-728.
IntoAtom(pv) ==
    IF pv.k \in {"String", "Int", "Double", "Bool"}
    THEN [ok |-> TRUE, atom |-> pv]
    ELSE [ok |-> FALSE, atom |-> pv]

\* The two's complement of a 64-bit pattern: invert every limb and add one.
Negate(limbs) ==
    [i \in 1..I64Limbs |->
        (LimbBase - 1 - limbs[i] + (IF \A j \in 1..(i - 1) : limbs[j] = 0 THEN 1 ELSE 0))
            % LimbBase]
IsNegative(limbs) == limbs[I64Limbs] >= LimbBase \div 2

\* BigInt::from_i64 (java_js_proxy.rs 758): the big-integer that equals the i64.
BigIntFromI64(limbs) ==
    [SV("bigint") EXCEPT !.neg = IsNegative(limbs),
                         !.mag = IF IsNegative(limbs) THEN Negate(limbs) ELSE limbs]

\* ptr_to_function / ptr_to_persistent and restore: the engine object a handle boxes
\* (foreign_function.rs 26-29, js_array.rs 256-258, js_object.rs 41-43).
Restore(hs, ptr) == hs[ptr].ref

RECURSIVE IntoJs(_, _, _, _)
RECURSIVE IntoJsItems(_, _, _, _)
RECURSIVE IntoJsEntries(_, _, _, _)

\* The loop of java_js_proxy.rs 800-804: the items in order, the first error ends it.
IntoJsItems(items, base, hs, bignum) ==
    IF items = <<>> THEN [ok |-> TRUE, vals |-> <<>>, fresh |-> <<>>]
    ELSE LET x == IntoJs(Head(items), base, hs, bignum)
         IN  IF ~x.ok THEN [ok |-> FALSE, vals |-> <<>>, fresh |-> <<>>]
             ELSE LET r == IntoJsItems(Tail(items), base + Len(x.fresh), hs, bignum)
                  IN  IF ~r.ok THEN r
                      ELSE [ok |-> TRUE, vals |-> <<x.val>> \o r.vals,
                            fresh |-> x.fresh \o r.fresh]

\* The loop of java_js_proxy.rs 780-782: obj.set(key, value) with the key as an atom.
IntoJsEntries(entries, base, hs, bignum) ==
    IF entries = <<>> THEN [ok |-> TRUE, vals |-> <<>>, fresh |-> <<>>]
    ELSE LET k == IntoAtom(Head(entries).key)
             x == IntoJs(Head(entries).value, base, hs, bignum)
         IN  IF ~k.ok \/ ~x.ok THEN [ok |-> FALSE, vals |-> <<>>, fresh |-> <<>>]
             ELSE LET r == IntoJsEntries(Tail(entries), base + Len(x.fresh), hs, bignum)
                  IN  IF ~r.ok THEN r
                      ELSE [ok |-> TRUE,
                            vals |-> <<[key |-> k.atom, value |-> x.val]>> \o r.vals,
                            fresh |-> x.fresh \o r.fresh]

\* into_js: java_js_proxy.rs 730-836. base is the number of engine objects that
\* exist, so that the objects the conversion creates are base + 1, base + 2, ...;
\* bignum tells whether the engine parses decimal literals with the suffix m.
IntoJs(pv, base, hs, bignum) ==
    CASE pv.k = "Throwable"  -> JsErr("thrown")
      [] pv.k = "Null"       -> JsOk(SV("null"), <<>>)
      [] pv.k = "String"     -> JsOk([SV("string") EXCEPT !.s = pv.s], <<>>)
      [] pv.k = "Double"     -> JsOk([SV("float") EXCEPT !.s = pv.s], <<>>)
      [] pv.k = "Int"        -> JsOk([SV("int") EXCEPT !.i = pv.i], <<>>)
      [] pv.k = "Bool"       -> JsOk([SV("bool") EXCEPT !.b = pv.b], <<>>)
      [] pv.k = "BigDecimal" -> IF bignum THEN JsOk([SV("bigdecimal") EXCEPT !.s = pv.s], <<>>)
                                ELSE JsErr("SyntaxError")
      [] pv.k = "BigInteger" -> JsOk(BigIntFromI64(pv.l), <<>>)
      [] pv.k \in {"Function", "Supplier", "BiFunction", "VarFunction"} ->
             JsOk(SRef("function", base + 1), <<Obj("hostfn", <<>>, <<>>)>>)
      [] pv.k = "Map" ->
             LET r == IntoJsEntries(pv.entries, base + 1, hs, bignum)
             IN  IF r.ok
                 THEN JsOk(SRef("object", base + 1), <<Obj("object", <<>>, r.vals)>> \o r.fresh)
                 ELSE JsErr("exception")
      [] pv.k = "Array" ->
             LET r == IntoJsItems(pv.items, base + 1, hs, bignum)
             IN  IF r.ok
                 THEN JsOk(SRef("array", base + 1), <<Obj("array", r.vals, <<>>)>> \o r.fresh)
                 ELSE JsErr("exception")
      [] pv.k = "JSFunction"   -> JsOk(SRef("function", Restore(hs, pv.ptr)), <<>>)
      [] pv.k = "NativeArray"  -> JsOk(SRef("array", Restore(hs, pv.ptr)), <<>>)
      [] pv.k = "NativeObject" -> JsOk(SRef("object", Restore(hs, pv.ptr)), <<>>)

\* ------------------------------------------------- script -> host: into_jobject
\* A handle: the box the host holds the address of, and the engine object it keeps.
Handle(kind, ref) == [kind |-> kind, ref |-> ref]
Some(hv, hs) == [some |-> TRUE, hv |-> hv, hs |-> hs]
None(hs) == [some |-> FALSE, hv |-> NoHV, hs |-> hs]

\* into_jobject: js_java_proxy.rs 37-191, the checks in the order of the code. The
\* address of a new box is its place among the boxes.
IntoJobject(value, hs) ==
    IF value.tag = "null" THEN Some(HostNull, hs)
    ELSE IF value.tag = "undefined" THEN Some(HostNull, hs)
    ELSE IF value.tag = "array"
         THEN Some(HWrapper("QuickJSArray", Len(hs) + 1), Append(hs, Handle("array", value.ref)))
    ELSE IF value.tag = "function"
         THEN Some(HWrapper("QuickJSFunction", Len(hs) + 1),
                   Append(hs, Handle("function", value.ref)))
    ELSE IF value.tag = "object"
         THEN Some(HWrapper("QuickJSObject", Len(hs) + 1),
                   Append(hs, Handle("object", value.ref)))
    ELSE IF value.tag = "float" THEN Some(HText("Double", value.s), hs)
    ELSE IF value.tag = "int" THEN Some(HInt(value.i), hs)
    ELSE IF value.tag = "string" THEN Some(HText("String", value.s), hs)
    ELSE IF value.tag = "bool" THEN Some(HBool(value.b), hs)
    ELSE None(hs)

\* ------------------------------------------------- SpecConv: the converters applied
\* The engine objects a script has created before the conversions:
\*   a = [1];  o = {k: 1};  f = function () {}
ScriptHeap ==
    <<Obj("array", <<[SV("int") EXCEPT !.i = 1]>>, <<>>),
      Obj("object", <<>>, <<[key |-> [PV("String") EXCEPT !.s = "k"],
                            value |-> [SV("int") EXCEPT !.i = 1]]>>),
      Obj("function", <<>>, <<>>)>>
ScriptRefs == {SRef("array", 1), SRef("object", 2), SRef("function", 3)}

\* Script values of every kind.
ScriptInputs ==
    {SV("null"), SV("undefined"), [SV("symbol") EXCEPT !.s = "Symbol.iterator"]}
    \cup {[SV("bool") EXCEPT !.b = x] : x \in BOOLEAN}
    \cup {[SV("int") EXCEPT !.i = x] : x \in I32Samples}
    \cup {[SV("float") EXCEPT !.s = x] : x \in DoubleSamples}
    \cup {[SV("string") EXCEPT !.s = x] : x \in StringSamples}
    \cup {BigIntFromI64(x) : x \in {TwoTo53, MaxI64, [i \in 1..I64Limbs |-> 65535]}}
    \cup {[SV("bigint") EXCEPT !.mag = [i \in 1..5 |-> IF i = 5 THEN 1 ELSE 0]]}
    \cup ScriptRefs

\* A conversion starts from a host value (stage "host") or a script value ("script").
ConvInputs ==
    {[stage |-> "host", hin |-> x, pv |-> NoPV, sv |-> NoSV, hout |-> NoHV] : x \in HostInputs}
    \cup {[stage |-> "script", hin |-> NoHV, pv |-> NoPV, sv |-> v, hout |-> NoHV] :
             v \in ScriptInputs}

InitConv ==
    /\ InitCommon
    /\ run = NoRun
    /\ heap = ScriptHeap
    /\ handles = <<>>
    /\ cv \in ConvInputs

\* to_script, first half: from_object classifies the host value (context.rs 279).
FromObjectStep ==
    /\ cv.stage = "host"
    /\ LET r == FromObject(cv.hin)
       IN  cv' = [cv EXCEPT !.stage = IF r.ok THEN "bridged" ELSE "host_error", !.pv = r.pv]
    /\ UNCHANGED <<heap, handles>>

\* to_script, second half: into_js realises the Bridged Value in the engine
\* (context.rs 294, globals.set(name, value)).
IntoJsStep(bignum) ==
    /\ cv.stage = "bridged"
    /\ LET j == IntoJs(cv.pv, Len(heap), handles, bignum)
       IN  /\ cv' = [cv EXCEPT !.stage = IF j.ok THEN "script" ELSE "script_error",
                               !.sv = j.val]
           /\ heap' = heap \o j.fresh
    /\ UNCHANGED handles

\* to_host: into_jobject on a script value (context.rs 122-128, 339-342).
IntoJobjectStep ==
    /\ cv.stage = "script"
    /\ LET r == IntoJobject(cv.sv, handles)
       IN  /\ cv' = [cv EXCEPT !.stage = IF r.some THEN "returned" ELSE "unmapped",
                               !.hout = r.hv]
           /\ handles' = r.hs
    /\ UNCHANGED heap

NextConv ==
    \/ FromObjectStep /\ UNCHANGED <<ctxBox, ctxStack, engine, frames, fault, last, run>>
    \/ \E bignum \in BOOLEAN :
          IntoJsStep(bignum) /\ UNCHANGED <<ctxBox, ctxStack, engine, frames, fault, last, run>>
    \/ IntoJobjectStep /\ UNCHANGED <<ctxBox, ctxStack, engine, frames, fault, last, run>>

SpecConv == InitConv /\ [][NextConv]_vars

\* ------------------------------------------------- claims under SpecConv
FinalStages == {"returned", "unmapped", "host_error", "script_error"}

\* C6: primitive round trip. For every host value x that is a Boolean, an Integer, a
\* Long (carried as a script big-integer), a Double or a String, to_script followed
\* by to_host ends by returning a host value equal to x.
C6_PrimitiveRoundTrip ==
    (cv.hin.cls \in PrimitiveClasses /\ cv.stage \in FinalStages)
        => (cv.stage = "returned" /\ cv.hout = cv.hin)

\* The 64-bit pattern of a script big-integer.
BigIntToI64(v) == IF v.neg THEN Negate(v.mag) ELSE v.mag

\* a script big-integer that equals the 64-bit host integer of the given limbs
IsBigIntOf(v, limbs) ==
    /\ v.tag = "bigint"
    /\ Len(v.mag) = I64Limbs
    /\ BigIntToI64(v) = limbs
    /\ IsNegative(limbs) = v.neg

\* C8: every 64-bit host integer (a Long), 2^53 and 2^63 - 1 included, converts
\* without error to the Bridged Value BigInteger of the same 64 bits and then to a
\* script big-integer holding exactly that value, never to a float or a 32-bit int.
C8_LongBecomesExactBigInt ==
    cv.hin.cls = "Long" =>
        /\ cv.stage \notin {"host_error", "script_error"}
        /\ cv.stage # "host" => (cv.pv.k = "BigInteger" /\ cv.pv.l = cv.hin.l)
        /\ cv.stage \in {"script", "returned", "unmapped"} => IsBigIntOf(cv.sv, cv.hin.l)

C8_Witness ==
    /\ cv.stage = "script"
    /\ cv.hin = HLong(MaxI64)
    /\ cv.sv.tag = "bigint"
    /\ ~cv.sv.neg

C9_ToScriptIsTotal ==
    (cv.hin.cls # "none" /\ cv.stage # "host") =>
        /\ cv.stage # "host_error"
        /\ cv.hin.cls \in UnrecognizedClasses
              => (cv.pv.k = "String" /\ cv.pv.s = cv.hin.s)

\* The capability checks of from_object (java_js_proxy.rs 634-704) in the order of the
\* code; the wrapper checks are the first statements of from_iterable and from_map.
CodeOrder ==
    <<"Boolean", "Integer", "String", "Double", "Float", "QuickJSArray", "Iterable",
      "QuickJSObject", "Map", "QuickJSFunction", "VariadicFunction", "Consumer",
      "BiConsumer", "BiFunction", "Supplier", "Function", "ObjectArray", "BigInteger",
      "BigDecimal", "Long">>

\* The order the contract states: 64-bit integers after 32-bit ones, wrappers before
\* sequences and maps, then unary, binary, supplier and variadic callables.
StatedOrder ==
    <<"Boolean", "Integer", "Long", "Double", "Float", "String", "QuickJSArray",
      "QuickJSObject", "QuickJSFunction", "Iterable", "ObjectArray", "Map", "Function",
      "Consumer", "BiFunction", "BiConsumer", "Supplier", "VariadicFunction",
      "BigInteger", "BigDecimal">>

\* The Bridged Value variant of a capability.
VariantOf(capability) ==
    CASE capability = "Boolean" -> "Bool"
      [] capability = "Integer" -> "Int"
      [] capability \in {"Long", "BigInteger"} -> "BigInteger"
      [] capability \in {"Double", "Float"} -> "Double"
      [] capability = "QuickJSArray" -> "NativeArray"
      [] capability = "QuickJSObject" -> "NativeObject"
      [] capability = "QuickJSFunction" -> "JSFunction"
      [] capability \in {"Iterable", "ObjectArray"} -> "Array"
      [] capability \in {"Function", "Consumer"} -> "Function"
      [] capability \in {"BiFunction", "BiConsumer"} -> "BiFunction"
      [] capability = "VariadicFunction" -> "VarFunction"
      [] OTHER -> capability

\* The variant of the first capability in the order that the object has; String when
\* it has none.
FirstMatch(order, obj) ==
    LET hits == {i \in 1..Len(order) : order[i] \in Supertypes(obj.cls)}
    IN  IF obj.cls = "null" THEN "Null"
        ELSE IF hits = {} THEN "String"
        ELSE VariantOf(order[CHOOSE i \in hits : \A j \in hits : i <= j])

\* C11 as stated: to_script gives a host value the variant of the first capability it
\* has in the stated order (..., unary, binary, supplier, variadic callable, ...): a
\* value that is a single-argument callable and a variadic callable becomes unary.
C11_FirstMatchInStatedOrder ==
    (cv.hin.cls # "none" /\ cv.stage \notin {"host", "host_error"})
        => cv.pv.k = FirstMatch(StatedOrder, cv.hin)

\* C11, amended: to_script gives a host value the variant of the first capability it
\* has in the order null, boolean, 32-bit integer, string, floating point, sequence
\* (wrapper first), map (wrapper first), function wrapper, variadic callable, consumer,
\* bi-consumer, two-argument callable, supplier, single-argument callable, array,
\* big-integer, decimal, 64-bit integer, otherwise string.
C11_FirstMatchInCodeOrder ==
    (cv.hin.cls # "none" /\ cv.stage \notin {"host", "host_error"})
        => cv.pv.k = FirstMatch(CodeOrder, cv.hin)

\* A host lambda that is a VariadicFunction, hence also a Function, was classified.
C11_Witness ==
    /\ cv.stage = "bridged"
    /\ cv.hin.cls = "VariadicLambda"
    /\ cv.pv.k = "VarFunction"

\* The host class the contract gives a script value kind.
HostClassOf(tag) ==
    CASE tag \in {"null", "undefined"} -> {"null"}
      [] tag = "bool"     -> {"Boolean"}
      [] tag = "int"      -> {"Integer"}
      [] tag = "float"    -> {"Double"}
      [] tag = "string"   -> {"String"}
      [] tag = "bigint"   -> {"Long"}
      [] tag = "array"    -> {"QuickJSArray"}
      [] tag = "object"   -> {"QuickJSObject"}
      [] tag = "function" -> {"QuickJSFunction"}
      [] OTHER            -> {"none"}

\* C10: to_host is total. into_jobject gives every script value a host value: null
\* for null and undefined, the primitive wrapper for a boolean, a number and a
\* string, a Long for a big-integer, a handle-backed wrapper for an array, an object
\* and a function; no script value kind is left without a host value.
C10_ToHostIsTotal ==
    cv.stage \in {"returned", "unmapped"} =>
        /\ cv.stage = "returned"
        /\ cv.sv.tag \in {"null", "undefined", "bool", "int", "float", "string", "bigint",
                          "array", "object", "function"}
              => cv.hout.cls \in HostClassOf(cv.sv.tag)

\* ------------------------------------------------- SpecHandles: exported script values
\* Maximal number of handles the host receives.
MaxHandles == 3

\* The host class into_jobject wraps a handle of the given kind in.
WrapperClass(kind) ==
    CASE kind = "array" -> "QuickJSArray"
      [] kind = "object" -> "QuickJSObject"
      [] kind = "function" -> "QuickJSFunction"

\* The wrapper the host holds for handle p.
WrapperOf(hs, p) == HWrapper(WrapperClass(hs[p].kind), p)

\* The values the host and the script write.
HostWrites == {HInt(41), HText("String", "a")}
ScriptWrites == {[SV("int") EXCEPT !.i = 2], [SV("string") EXCEPT !.s = "x"]}

\* array.set(0, value) (js_array.rs 122) and object.set("k", value) (js_object.rs 122).
PutFirst(obj, val) ==
    IF obj.kind = "array" THEN [obj EXCEPT !.items[1] = val]
    ELSE [obj EXCEPT !.props[1].value = val]

\* array.get(0) (js_array.rs 175) and object.get("k") (js_object.rs 146); what a
\* script reads as a[0] and o.k.
GetFirst(obj) == IF obj.kind = "array" THEN obj.items[1] ELSE obj.props[1].value

NoUse == [op |-> "none", p |-> 0, ref |-> 0, val |-> NoSV, back |-> NoSV,
          origin |-> <<>>, created |-> 0]

InitHandles ==
    /\ InitCommon
    /\ run = NoRun
    /\ heap = ScriptHeap
    /\ handles = <<>>
    /\ cv = NoUse

\* getGlobal of a variable that holds an array, an object or a function: to_host
\* exports it as a wrapper (context.rs 118-128). origin remembers what was exported.
Export(v) ==
    /\ v \in ScriptRefs
    /\ Len(handles) < MaxHandles
    /\ LET r == IntoJobject(v, handles)
       IN  /\ handles' = r.hs
           /\ cv' = [cv EXCEPT !.op = "export", !.p = Len(r.hs), !.ref = v.ref,
                               !.origin = Append(@, v)]
    /\ UNCHANGED heap

\* The host passes the wrapper of handle p back, unmodified: to_script of the
\* wrapper (context.rs 279, 294).
Reimport(p) ==
    /\ p \in 1..Len(handles)
    /\ LET r == FromObject(WrapperOf(handles, p))
           j == IntoJs(r.pv, Len(heap), handles, FALSE)
       IN  /\ r.ok /\ j.ok
           /\ heap' = heap \o j.fresh
           /\ cv' = [cv EXCEPT !.op = "reimport", !.p = p, !.ref = j.val.ref,
                               !.back = j.val, !.created = Len(j.fresh)]
    /\ UNCHANGED handles

\* The host writes through the wrapper: setValue of QuickJSArray (js_array.rs 109-131)
\* and of QuickJSObject (js_object.rs 107-130) on the restored engine object.
SetThroughWrapper(p, x) ==
    /\ p \in 1..Len(handles)
    /\ handles[p].kind \in {"array", "object"}
    /\ LET r == FromObject(x)
           j == IntoJs(r.pv, Len(heap), handles, FALSE)
       IN  /\ r.ok /\ j.ok
           /\ heap' = [heap EXCEPT ![Restore(handles, p)] = PutFirst(@, j.val)]
           /\ cv' = [cv EXCEPT !.op = "wrapper_set", !.p = p, !.ref = Restore(handles, p),
                               !.val = j.val]
    /\ UNCHANGED handles

\* Script writes the original variable: a[0] = val, o.k = val.
ScriptSets(v, val) ==
    /\ v \in ScriptRefs
    /\ v.tag \in {"array", "object"}
    /\ heap' = [heap EXCEPT ![v.ref] = PutFirst(@, val)]
    /\ cv' = [cv EXCEPT !.op = "script_set", !.p = 0, !.ref = v.ref, !.val = val]
    /\ UNCHANGED handles

NextHandles ==
    \/ \E v \in ScriptRefs :
          Export(v) /\ UNCHANGED <<ctxBox, ctxStack, engine, frames, fault, last, run>>
    \/ \E p \in 1..MaxHandles :
          Reimport(p) /\ UNCHANGED <<ctxBox, ctxStack, engine, frames, fault, last, run>>
    \/ \E p \in 1..MaxHandles, x \in HostWrites :
          SetThroughWrapper(p, x)
             /\ UNCHANGED <<ctxBox, ctxStack, engine, frames, fault, last, run>>
    \/ \E v \in ScriptRefs, val \in ScriptWrites :
          ScriptSets(v, val) /\ UNCHANGED <<ctxBox, ctxStack, engine, frames, fault, last, run>>

SpecHandles == InitHandles /\ [][NextHandles]_vars

\* C7: identity preservation. A script array, object or function that to_host
\* exported as a wrapper and that the host passes back unmodified into to_script is
\* the engine object that was exported, and no engine object is created for it; a
\* value written through the wrapper is what script reads in the original variable,
\* and a value written by script is what every wrapper of that variable reads.
C7_IdentityPreserved ==
    /\ cv.op = "reimport" => (cv.back = cv.origin[cv.p] /\ cv.created = 0)
    /\ cv.op = "wrapper_set" => GetFirst(heap[cv.origin[cv.p].ref]) = cv.val
    /\ cv.op = "script_set" =>
          \A p \in 1..Len(handles) :
              cv.origin[p].ref = cv.ref => GetFirst(heap[Restore(handles, p)]) = cv.val

C7_Witness ==
    /\ cv.op = "reimport"
    /\ cv.back.tag = "array"
    /\ heap[cv.back.ref] # ScriptHeap[cv.back.ref]

\* ------------------------------------------------- SpecEval: reentrant eval
\* The host sets a Function f as a global and evaluates "f(1)"; f evaluates a script
\* on the same context handle and returns what eval returned, and so on down to the
\* innermost script, which is a literal. depth counts the evaluations in progress.
EvalDepths == 1..((MaxDepth + 1) \div 2)
EvalDepth(frs) == Cardinality({i \in 1..Len(frs) : frs[i].op = "eval"})

NoRet == [kind |-> "none", sv |-> NoSV, hv |-> NoHV]
EvalIdle == [state |-> "idle", depth |-> 0, ctx |-> 0, lit |-> NoSV, phase |-> "down",
             ret |-> NoRet, result |-> NoHV]

InitEval ==
    /\ InitCommon
    /\ run = EvalIdle
    /\ heap = ScriptHeap
    /\ handles = <<>>
    /\ cv = NoConv

\* The host calls eval at top level (context.rs 324-333), as long as it has room for
\* the handles the evaluation may give it.
StartEval(c, n, v) ==
    /\ run.state = "idle"
    /\ frames[1] = <<>>
    /\ Len(handles) + n <= MaxHandles
    /\ CallWithContext(1, "eval", c)
    /\ run' = [EvalIdle EXCEPT !.state = "running", !.depth = n, !.ctx = c, !.lit = v]
    /\ UNCHANGED <<heap, handles, cv>>

\* The script "f(1)" calls the host function: the closure of from_function is entered
\* (java_js_proxy.rs 460-472).
ScriptCallsFunction ==
    /\ run.state = "running" /\ run.phase = "down"
    /\ frames[1] # <<>> /\ Top(1).op = "eval"
    /\ EvalDepth(frames[1]) < run.depth
    /\ ScriptCallsHost(1)
    /\ UNCHANGED <<run, heap, handles, cv>>

\* The host function calls eval on the context handle of the running evaluation.
FunctionCallsEval ==
    /\ run.state = "running" /\ run.phase = "down"
    /\ frames[1] # <<>> /\ Top(1).op = "callback"
    /\ CallWithContext(1, "eval", run.ctx)
    /\ UNCHANGED <<run, heap, handles, cv>>

\* The script of the innermost evaluation in progress has its value: the closure of
\* eval converts it with into_jobject(..).unwrap() and eval returns (context.rs 336-348).
EvalReturns ==
    /\ run.state = "running"
    /\ frames[1] # <<>> /\ Top(1).op = "eval"
    /\ \/ run.phase = "down" /\ EvalDepth(frames[1]) = run.depth
       \/ run.phase = "up" /\ run.ret.kind = "script"
    /\ LET value == IF run.phase = "down" THEN run.lit ELSE run.ret.sv
           r == IntoJobject(value, handles)
       IN  /\ Return(1, IF r.some THEN "ok" ELSE "unwind")
           /\ handles' = r.hs
           /\ run' = [run EXCEPT !.phase = "up",
                                 !.ret = [kind |-> "host", sv |-> NoSV, hv |-> r.hv],
                                 !.state = IF r.some /\ Len(frames[1]) = 1
                                           THEN "done" ELSE @,
                                 !.result = IF r.some /\ Len(frames[1]) = 1
                                            THEN r.hv ELSE @]
    /\ UNCHANGED <<heap, cv>>

\* The host function returns what the inner eval returned: the closure converts it
\* with from_object(..).unwrap() and hands it to the calling script
\* (java_js_proxy.rs 478-482, 763).
FunctionReturns ==
    /\ run.state = "running" /\ run.phase = "up" /\ run.ret.kind = "host"
    /\ frames[1] # <<>> /\ Top(1).op = "callback"
    /\ LET r == FromObject(run.ret.hv)
           j == IntoJs(r.pv, Len(heap), handles, FALSE)
       IN  IF r.ok /\ j.ok
           THEN /\ HostReturns(1)
                /\ heap' = heap \o j.fresh
                /\ run' = [run EXCEPT !.ret = [kind |-> "script", sv |-> j.val, hv |-> NoHV]]
           ELSE /\ fault' = [fault EXCEPT ![1] = [kind |-> "abort", op |-> "callback",
                                                  ctx |-> run.ctx]]
                /\ UNCHANGED <<ctxBox, ctxStack, engine, frames, last, run, heap>>
    /\ UNCHANGED <<handles, cv>>

\* The host takes the result and is ready for the next evaluation.
EvalAgain ==
    /\ run.state = "done"
    /\ run' = EvalIdle
    /\ UNCHANGED <<ctxBox, ctxStack, engine, frames, fault, last, heap, handles, cv>>

EvalSteps ==
    \/ ScriptCallsFunction
    \/ FunctionCallsEval
    \/ EvalReturns
    \/ FunctionReturns

NextEval ==
    \/ \E c \in Contexts, n \in EvalDepths, v \in ScriptInputs : StartEval(c, n, v)
    \/ ScriptCallsFunction
    \/ FunctionCallsEval
    \/ EvalReturns
    \/ FunctionReturns
    \/ EvalAgain

\* A running evaluation is one host thread inside native code: it takes its next
\* step whenever it has one.
SpecEval == InitEval /\ [][NextEval]_vars /\ WF_vars(EvalSteps)

\* C5: reentrant eval completes. An evaluation in which a host function registered
\* as a global calls eval on the same context handle, at any nesting depth, ends: no
\* inner eval blocks or fails on the engine's scope guard, every result is handed
\* on, and when the outer eval has returned its result the reentrancy stack is empty
\* and the context handle is live.
C5_ReentrantEvalCompletes ==
    (run.state = "running" /\ run.depth > 1)
        ~> (/\ run.state = "done"
            /\ run.result.cls \in HostClassOf(run.lit.tag)
            /\ ctxStack[1] = <<>>
            /\ ctxBox[run.ctx] = "live")

\* ===================================================== SpecInvoke: invoke by name
\* The host invokes a script function by a dotted name. A name is its characters; a
\* path is a sequence of property names from the global object.
MaxNameLen == 5
NameChars == {"m", "f", "n", "."}
RECURSIVE SeqsUpTo(_, _)
SeqsUpTo(S, n) ==
    IF n = 0 THEN {<<>>}
    ELSE LET shorter == SeqsUpTo(S, n - 1)
         IN  shorter \cup {Append(q, x) : q \in {r \in shorter : Len(r) = n - 1}, x \in S}
Names == SeqsUpTo(NameChars, MaxNameLen)

\* str::split('.') (context.rs 393): the pieces between the dots, empty ones included.
RECURSIVE Split(_)
Split(name) ==
    IF \A i \in 1..Len(name) : name[i] # "." THEN <<name>>
    ELSE LET d == CHOOSE i \in 1..Len(name) :
                      name[i] = "." /\ \A j \in 1..(i - 1) : name[j] # "."
         IN  <<SubSeq(name, 1, d - 1)>> \o Split(SubSeq(name, d + 1, Len(name)))

\* The globals of the running script:
\*   var n = 5; function f() { return arguments.length }
\*   var m = { n: 3, f: function (x) { return x }, m: { f: function () { return 2n ** 53n + 1n } } }
ScriptFunction(body) == [SV("function") EXCEPT !.s = body]
GlobalTree(path) ==
    CASE path = <<>>                      -> SV("object")
      [] path = << <<"n">> >>             -> [SV("int") EXCEPT !.i = 5]
      [] path = << <<"f">> >>             -> ScriptFunction("count")
      [] path = << <<"m">> >>             -> SV("object")
      [] path = << <<"m">>, <<"n">> >>    -> [SV("int") EXCEPT !.i = 3]
      [] path = << <<"m">>, <<"f">> >>    -> ScriptFunction("first")
      [] path = << <<"m">>, <<"m">> >>    -> SV("object")
      [] path = << <<"m">>, <<"m">>, <<"f">> >> -> ScriptFunction("big")
      [] OTHER                            -> SV("undefined")

\* Value::is_object (context.rs 401): arrays and functions are objects too.
IsObject(v) == v.tag \in RefTags
\* Value::is_function (context.rs 427).
IsFunction(v) == v.tag = "function"

\* What the script function returns for its arguments.
ApplyScript(body, args) ==
    CASE body = "count" -> [SV("int") EXCEPT !.i = Len(args)]
      [] body = "first" -> IF args = <<>> THEN SV("undefined") ELSE args[1]
      [] body = "big"   -> BigIntFromI64(TwoTo53Plus1)

\* The host exception invoke throws itself: java.lang.Exception with the message
\* "<subject> is not an object" or "<subject> is not a function".
NoExc == [kind |-> "none", subject |-> <<>>]
Thrown(kind, subject) == [kind |-> kind, subject |-> subject]
Outcome(how, hv, exc) == [how |-> how, hv |-> hv, exc |-> exc]


\* The loop of foreign_function.rs 77-87: from_object on every argument, then
\* push_arg(..).unwrap() on every result; a failed conversion panics there.
RECURSIVE ArgsJs(_, _, _)
ArgsJs(args, base, hs) ==
    IF args = <<>> THEN [ok |-> TRUE, vals |-> <<>>, fresh |-> <<>>]
    ELSE LET r == FromObject(Head(args))
             j == IntoJs(r.pv, base, hs, FALSE)
             rest == ArgsJs(Tail(args), base + Len(j.fresh), hs)
         IN  IF r.ok /\ j.ok /\ rest.ok
             THEN [ok |-> TRUE, vals |-> <<j.val>> \o rest.vals, fresh |-> j.fresh \o rest.fresh]
             ELSE [ok |-> FALSE, vals |-> <<>>, fresh |-> <<>>]

\* invoke_js_function_with_java_parameters: foreign_function.rs 66-102. The result is
\* converted with into_jobject(..).unwrap().
InvokeJsFunctionWithJavaParameters(func, args, base, hs) ==
    LET a == ArgsJs(args, base, hs)
        r == IntoJobject(ApplyScript(func.s, a.vals), hs)
    IN  IF ~a.ok THEN Outcome("abort", NoHV, NoExc)
        ELSE IF r.some THEN Outcome("value", r.hv, NoExc)
        ELSE Outcome("abort", NoHV, NoExc)

\* The loop of context.rs 397-417: target.get(part) for all parts but the last; the
\* first value that is not an object ends the call with a host exception.
RECURSIVE Walk(_, _)
Walk(target, parts) ==
    IF Len(parts) <= 1 THEN [ok |-> TRUE, target |-> target, part |-> <<>>]
    ELSE LET s == GlobalTree(Append(target, Head(parts)))
         IN  IF IsObject(s) THEN Walk(Append(target, Head(parts)), Tail(parts))
             ELSE [ok |-> FALSE, target |-> target, part |-> Head(parts)]

\* invoke: context.rs 377-455. The message of "is not a function" carries the whole
\* name: the shadowing function_name of line 396 ends with the block of the walk.
Invoke(name, args, base, hs) ==
    LET parts == Split(name)
        w == Walk(<<>>, parts)
        f == GlobalTree(Append(w.target, parts[Len(parts)]))
    IN  IF ~w.ok THEN Outcome("exception", NoHV, Thrown("not_an_object", w.part))
        ELSE IF IsFunction(f) THEN InvokeJsFunctionWithJavaParameters(f, args, base, hs)
        ELSE Outcome("exception", NoHV, Thrown("not_a_function", name))

\* A boundary failure thrown as the script-exception type.
ThrowNewScriptException(cls) == "QuickJSScriptException"

\* env.throw_new("java/lang/Exception", ..): context.rs 403-408, 436-441.
ThrowNew(cls) == cls

\* The class handle_exception throws for a script error: context.rs 225-227, 241-256.
ScriptExceptionClass == "QuickJSScriptException"

\* What one call of invoke did besides producing its outcome: the class of the host
\* exception it threw itself, the number of arguments handed to from_object
\* (foreign_function.rs 77-87) and whether the script function was called
\* (foreign_function.rs 89-91). Follows the branches of Invoke.
NoEffects == [cls |-> "none", converted |-> 0, called |-> FALSE]
InvokeEffects(name, args, base, hs) ==
    LET parts == Split(name)
        w == Walk(<<>>, parts)
        f == GlobalTree(Append(w.target, parts[Len(parts)]))
    IN  IF ~w.ok
        THEN [cls |-> ThrowNew("java.lang.Exception"), converted |-> 0, called |-> FALSE]
        ELSE IF IsFunction(f)
        THEN [cls |-> "none", converted |-> Len(args), called |-> ArgsJs(args, base, hs).ok]
        ELSE [cls |-> ThrowNew("java.lang.Exception"), converted |-> 0, called |-> FALSE]

InvokeArgs ==
    {<<>>, <<HInt(41)>>, <<HText("String", "a"), HInt(1)>>, <<HLong(TwoTo53Plus1)>>}

InvokeIdle == [state |-> "idle", name |-> <<>>, args |-> <<>>,
               out |-> Outcome("none", NoHV, NoExc), fx |-> NoEffects]

InitInvoke ==
    /\ InitCommon
    /\ run = InvokeIdle
    /\ heap = ScriptHeap
    /\ handles = <<>>
    /\ cv = NoConv

\* The host calls invoke. The functions of the script return no array, object or
\* function, and the arguments are scalars: no box and no engine object is created.
InvokeCall(name, args) ==
    /\ run.state = "idle"
    /\ LET out == Invoke(name, args, Len(heap), handles)
       IN  run' = [state |-> IF out.how = "abort" THEN "aborted" ELSE "returned",
                   name |-> name, args |-> args, out |-> out,
                   fx |-> InvokeEffects(name, args, Len(heap), handles)]
    /\ UNCHANGED <<heap, handles>>

\* The host takes the result or the exception and is ready for the next call.
InvokeAgain ==
    /\ run.state = "returned"
    /\ run' = InvokeIdle
    /\ UNCHANGED <<heap, handles>>

NextInvoke ==
    \/ \E name \in Names, args \in InvokeArgs :
          InvokeCall(name, args)
          /\ UNCHANGED <<ctxBox, ctxStack, engine, frames, fault, last, cv>>
    \/ InvokeAgain /\ UNCHANGED <<ctxBox, ctxStack, engine, frames, fault, last, cv>>

SpecInvoke == InitInvoke /\ [][NextInvoke]_vars

\* C12: invoke resolves a dotted name or reports where it stopped. invoke walks all
\* segments but the last from the global object; it fails with "X is not an object"
\* for the first intermediate segment X whose value is not an object and with
\* "<name> is not a function" when the final value is not callable; otherwise it
\* calls the function with the converted arguments and returns the converted result.
C12_InvokeResolvesOrReports ==
    run.state # "idle" =>
        LET parts == Split(run.name)
            stops == {i \in 1..(Len(parts) - 1) : ~IsObject(GlobalTree(SubSeq(parts, 1, i)))}
            final == GlobalTree(parts)
        IN  IF stops # {}
            THEN /\ run.out.how = "exception"
                 /\ run.out.exc = Thrown("not_an_object",
                                         parts[CHOOSE i \in stops : \A j \in stops : i <= j])
            ELSE IF ~IsFunction(final)
            THEN /\ run.out.how = "exception"
                 /\ run.out.exc = Thrown("not_a_function", run.name)
            ELSE /\ run.out.how = "value"
                 /\ run.out.hv.cls \in
                        HostClassOf(ApplyScript(final.s, ArgsJs(run.args, Len(heap), handles).vals).tag)


\* C23: a boundary failure of invoke (a path segment that is not an object, or a
\* resolved target that is not callable) raises a host exception whose type is not
\* the script-exception type, and in that case no script function is called and no
\* argument is converted.
C23_BoundaryFailureIsDistinct ==
    (run.state # "idle" /\ run.out.how = "exception"
        /\ run.out.exc.kind \in {"not_an_object", "not_a_function"}) =>
            /\ run.fx.cls # "none"
            /\ run.fx.cls # ScriptExceptionClass
            /\ run.fx.converted = 0
            /\ ~run.fx.called

\* invoke("m.n.f", x, y) stopped at m.n, which is a number, with arguments to convert.
C23_Witness ==
    /\ run.state = "returned"
    /\ run.out.exc.kind = "not_an_object"
    /\ run.name = <<"m", ".", "n", ".", "f">>
    /\ Len(run.args) = 2

\* ================================================= SpecCallback: host callables
\* A script calls a host callable that was set as a global; what the callable throws
\* crosses the script and comes back to the host through the exception bridge.

\* A host exception: its class, its message (getMessage() may be null) and the first
\* element of its stack trace.
HostExc(cls, hasMsg, msg) ==
    [cls |-> cls, hasMsg |-> hasMsg, msg |-> msg, file |-> "Host.java", line |-> 7]
NoHostExc == [cls |-> "none", hasMsg |-> FALSE, msg |-> "", file |-> "", line |-> 0]
\* RuntimeException("boom"), RuntimeException(), UncheckedIOException("boom", cause),
\* a class without a constructor that takes the message alone, and an exception of
\* the application whose class the class loader of the bridge does not know.
HostExcSamples ==
    {HostExc("java.lang.RuntimeException", TRUE, "boom"),
     HostExc("java.lang.RuntimeException", FALSE, ""),
     HostExc("java.io.UncheckedIOException", TRUE, "boom"),
     HostExc("app.PluginException", TRUE, "boom")}
HasStringConstructor(cls) == cls # "java.io.UncheckedIOException"
\* env.find_class(&class_name) (context.rs 204): whether the lookup finds the class.
FindClass(cls) == cls # "app.PluginException"

\* What a host callable does when it is called: x -> x + 1 on Integer (a
\* ClassCastException on anything else), return a fixed value, or throw.
Behaviour(does, ret, exc) == [does |-> does, ret |-> ret, exc |-> exc]
Returned(hv) == [threw |-> FALSE, hv |-> hv, exc |-> NoHostExc]
Threw(exc) == [threw |-> TRUE, hv |-> NoHV, exc |-> exc]
IncInt(i) == IF i = 2147483647 THEN -2147483647 - 1 ELSE i + 1
ApplyHost(bhv, params) ==
    CASE bhv.does = "throws"  -> Threw(bhv.exc)
      [] bhv.does = "returns" -> Returned(bhv.ret)
      [] bhv.does = "inc" ->
             IF params # <<>> /\ params[1].cls = "Integer"
             THEN Returned(HInt(IncInt(params[1].i)))
             ELSE Threw(HostExc("java.lang.ClassCastException", TRUE, "cast"))

\* The Bridged Value of a host exception and the script exception made of it.
Throwable(msg, cls, file, line) ==
    [ok |-> TRUE, msg |-> msg, class_name |-> cls, file |-> file, line |-> line]
ThrowableErr == [ok |-> FALSE, msg |-> "", class_name |-> "", file |-> "", line |-> 0]

\* from_throwable: java_js_proxy.rs 157-234. get_string on the null message is an Err.
FromThrowable(exc) ==
    IF ~exc.hasMsg THEN ThrowableErr
    ELSE Throwable(exc.msg, exc.cls, exc.file, exc.line)

\* A value a script throws: an exception object (message, stack, the file name the
\* engine recorded, the three markers of a host exception), a string or anything else.
NoThrown ==
    [kind |-> "none", message |-> "", stack |-> "", fileName |-> "", lineNumber |-> 0,
     marked |-> FALSE, original_java_exception_class |-> "",
     original_java_exception_file |-> "", original_java_exception_line |-> 0]
ScriptStack == "    at <eval> (eval_script:1)"

\* into_js of a Throwable: java_js_proxy.rs 734-743.
ThrowableIntoJs(t) ==
    [NoThrown EXCEPT !.kind = "exception", !.message = t.msg, !.stack = ScriptStack,
                     !.marked = TRUE,
                     !.original_java_exception_class = t.class_name,
                     !.original_java_exception_file = t.file,
                     !.original_java_exception_line = t.line]
\* Exception::throw_message (java_js_proxy.rs 97-100): an exception without markers.
ThrowMessage(text) ==
    [NoThrown EXCEPT !.kind = "exception", !.message = text, !.stack = ScriptStack]


\* What a call of a wrapped host callable gives the script: a value, a thrown
\* exception, or a panic inside the closure.
Gave(val) == [how |-> "value", val |-> val, thrown |-> NoThrown]
Raised(thrown) == [how |-> "thrown", val |-> NoSV, thrown |-> thrown]
Panicked == [how |-> "panic", val |-> NoSV, thrown |-> NoThrown]

\* The parameters of a closure: into_jobject(..).unwrap() on each
\* (java_js_proxy.rs 345-350, 391-393, 464-466, 503-508).
RECURSIVE ParamsUnwrapped(_, _)
ParamsUnwrapped(args, hs) ==
    IF args = <<>> THEN [ok |-> TRUE, hvs |-> <<>>]
    ELSE LET r == IntoJobject(Head(args), hs)
             rest == ParamsUnwrapped(Tail(args), r.hs)
         IN  IF r.some /\ rest.ok THEN [ok |-> TRUE, hvs |-> <<r.hv>> \o rest.hvs]
             ELSE [ok |-> FALSE, hvs |-> <<>>]

\* The parameters of VariadicFunction::call (java_js_proxy.rs 61-76): an element that
\* has no host value stays null, with a line in the log.
RECURSIVE ParamsOrNull(_, _)
ParamsOrNull(args, hs) ==
    IF args = <<>> THEN <<>>
    ELSE LET r == IntoJobject(Head(args), hs)
         IN  <<IF r.some THEN r.hv ELSE HostNull>> \o ParamsOrNull(Tail(args), r.hs)

\* The result of a host callable on its way to the script: from_object(..).unwrap()
\* and the into_js of the returned Bridged Value (java_js_proxy.rs 481, 763).
ResultIntoJs(hv, base, hs) ==
    LET r == FromObject(hv)
        j == IntoJs(r.pv, base, hs, FALSE)
    IN  IF ~r.ok THEN Panicked
        ELSE IF j.ok THEN Gave(j.val)
        ELSE Raised(ThrowMessage(j.val.s))

\* The closures of from_function, from_bifunction and from_supplier
\* (java_js_proxy.rs 428-446, 460-483, 499-528): call_method, exception_check, then
\* from_throwable(..).unwrap() or from_object(..).unwrap().
FunctionClosure(bhv, args, base, hs) ==
    LET p == ParamsUnwrapped(args, hs)
        c == ApplyHost(bhv, p.hvs)
        t == FromThrowable(c.exc)
    IN  IF ~p.ok THEN Panicked
        ELSE IF c.threw THEN (IF t.ok THEN Raised(ThrowableIntoJs(t)) ELSE Panicked)
        ELSE ResultIntoJs(c.hv, base, hs)

\* The closures of from_consumer and from_biconsumer (java_js_proxy.rs 341-372,
\* 388-412): call_method(..).unwrap() comes before exception_check, and call_method
\* is an Err when the callable threw.
ConsumerClosure(bhv, args, base, hs) ==
    LET p == ParamsUnwrapped(args, hs)
        c == ApplyHost(bhv, p.hvs)
    IN  IF ~p.ok THEN Panicked
        ELSE IF c.threw THEN Panicked
        ELSE Gave(SV("null"))

\* VariadicFunction::call: java_js_proxy.rs 50-103.
VariadicCall(bhv, args, base, hs) ==
    LET c == ApplyHost(bhv, ParamsOrNull(args, hs))
        t == FromThrowable(c.exc)
        r == FromObject(c.hv)
        j == IntoJs(r.pv, base, hs, FALSE)
    IN  IF c.threw
        THEN (IF t.ok THEN Raised(ThrowableIntoJs(t)) ELSE Raised(ThrowMessage("NullPtr")))
        ELSE IF ~r.ok THEN Raised(ThrowMessage("JavaException"))
        ELSE IF j.ok THEN Gave(j.val)
        ELSE Raised(ThrowMessage(j.val.s))

\* A host callable as a script sees it: the closure from_object chose for its class.
Arity(cls) ==
    CASE cls \in {"Function", "Consumer"} -> 1
      [] cls \in {"BiFunction", "BiConsumer"} -> 2
      [] cls = "Supplier" -> 0
      [] OTHER -> 1
CallHost(cls, bhv, args, base, hs) ==
    LET k == FromObject(HText(cls, "lambda")).pv.k
        a == SubSeq(args, 1, Arity(cls))
    IN  CASE cls \in {"Consumer", "BiConsumer"} -> ConsumerClosure(bhv, a, base, hs)
          [] k = "VarFunction" -> VariadicCall(bhv, args, base, hs)
          [] OTHER -> FunctionClosure(bhv, a, base, hs)


\* ------------------------------------------------- the exception bridge
\* An engine error: Error::Exception with the value the script threw, or another
\* kind with its description.
EngineException(thrown) == [kind |-> "Exception", thrown |-> thrown]
EngineError(kind) == [kind |-> kind, thrown |-> NoThrown]
NoError == [kind |-> "none", thrown |-> NoThrown]
OtherErrorKinds == {"InvalidString", "Allocation"}

\* The host exception the bridge leaves pending: QuickJSScriptException(cause,
\* message, fileName, stack) or QuickJSScriptException(message). The constructors
\* take no line: line is 0.
NoCause == [cls |-> "none", msg |-> ""]
Cause(cls, msg) == [cls |-> cls, msg |-> msg]
NoPending == [cls |-> "none", msg |-> "", file |-> "", stack |-> "", line |-> 0,
              cause |-> NoCause]
ScriptException(cause, msg, file, stack) ==
    [cls |-> "QuickJSScriptException", msg |-> msg, file |-> file, stack |-> stack,
     line |-> 0, cause |-> cause]
MessageOnly(msg) == ScriptException(NoCause, msg, "", "")
Placeholder == "<script>"
UnknownType == "Unknown type of JS Error::Exception"

\* How the JNI layer answers find_class while NoSuchMethodError is pending, which
\* the JNI specification leaves undefined: the wrapper reports the pending exception
\* (and the unwrap of context.rs 220 panics), or the lookup goes through.
PendingModes == {"reported", "ignored"}

Pending(exc) == [how |-> "exception", exc |-> exc]
BridgePanics == [how |-> "panic", exc |-> NoPending]

\* handle_exception: context.rs 147-261. file_name is null when the default is
\* chosen (152, 161), so the file is the placeholder or the file of the markers. A
\* class that is not found leaves ClassNotFoundException pending, which is cleared
\* (212); a constructor that is not found leaves NoSuchMethodError pending, which
\* is not (205-211).
HandleException(e, mode) ==
    IF e.kind = "Exception"
    THEN LET x == e.thrown
             java_file_name == IF x.marked THEN x.original_java_exception_file
                               ELSE Placeholder
             found == x.marked /\ FindClass(x.original_java_exception_class)
             constructed == found /\ HasStringConstructor(x.original_java_exception_class)
             throwable == IF constructed
                          THEN Cause(x.original_java_exception_class, x.message)
                          ELSE NoCause
         IN  IF x.kind = "exception"
             THEN IF found /\ ~constructed /\ mode = "reported"
                  THEN BridgePanics
                  ELSE Pending(ScriptException(throwable, x.message, java_file_name, x.stack))
             ELSE IF x.kind = "string" THEN Pending(MessageOnly(x.message))
             ELSE Pending(MessageOnly(UnknownType))
    ELSE Pending(MessageOnly(e.kind))


\* ------------------------------------------------- SpecCallback: the evaluations
\* The scripts: "f(a, b)" and "try { f(a, b) } catch (e) { throw e }" with a host
\* callable f, and scripts that throw by themselves or that the engine rejects.
CallScripts == {"call", "rethrow"}
Behaviours ==
    {Behaviour("inc", HostNull, NoHostExc), Behaviour("returns", HInt(42), NoHostExc)}
    \cup {Behaviour("throws", HostNull, x) : x \in HostExcSamples}
ScriptArgs ==
    {<<[SV("int") EXCEPT !.i = 41], [SV("int") EXCEPT !.i = 1]>>,
     <<[SV("string") EXCEPT !.s = "a"], [SV("int") EXCEPT !.i = 1]>>,
     <<BigIntFromI64(TwoTo53Plus1), [SV("int") EXCEPT !.i = 1]>>}
\* throw new Error("bad"); the SyntaxError of "var x = ;", to which the parser gives a
\* file name and a line; throw "oops"; throw 1
ThrownSamples ==
    {[NoThrown EXCEPT !.kind = "exception", !.message = "bad", !.stack = ScriptStack],
     [NoThrown EXCEPT !.kind = "exception", !.message = "unexpected token",
                      !.stack = ScriptStack, !.fileName = "eval_script", !.lineNumber = 1],
     [NoThrown EXCEPT !.kind = "string", !.message = "oops"],
     [NoThrown EXCEPT !.kind = "other"]}
EngineErrors ==
    {EngineException(x) : x \in ThrownSamples} \cup {EngineError(k) : k \in OtherErrorKinds}

NoOutcome == [how |-> "none", hv |-> NoHV, exc |-> NoPending]
CallbackIdle ==
    [state |-> "idle", script |-> "none", cls |-> "none",
     bhv |-> Behaviour("none", HostNull, NoHostExc), args |-> <<>>,
     got |-> [how |-> "none", val |-> NoSV, thrown |-> NoThrown],
     err |-> NoError, out |-> NoOutcome]

InitCallback ==
    /\ InitCommon
    /\ run = CallbackIdle
    /\ heap = ScriptHeap
    /\ handles = <<>>
    /\ cv = NoConv

\* eval runs a script that calls the host callable: the closure runs
\* (context.rs 330-335, java_js_proxy.rs 341, 388, 428, 460, 499, 50). The arguments
\* and the results are scalars: no box and no engine object is created.
EvalCallsHost(script, cls, bhv, args) ==
    /\ run.state = "idle"
    /\ LET got == CallHost(cls, bhv, args, Len(heap), handles)
       IN  run' = [CallbackIdle EXCEPT !.state = IF got.how = "panic" THEN "aborted"
                                                 ELSE "called",
                                       !.script = script, !.cls = cls, !.bhv = bhv,
                                       !.args = args, !.got = got]
    /\ UNCHANGED <<heap, handles>>

\* The script goes on after the call: the value of the call is the value of the
\* script; a thrown exception propagates, or is caught and thrown again unchanged.
ScriptEnds ==
    /\ run.state = "called"
    /\ run' = IF run.got.how = "thrown"
              THEN [run EXCEPT !.state = "raised", !.err = EngineException(run.got.thrown)]
              ELSE [run EXCEPT !.state = "valued"]
    /\ UNCHANGED <<heap, handles>>

\* eval runs a script that throws by itself, or the engine fails in another way.
EvalFails(e) ==
    /\ run.state = "idle"
    /\ run' = [CallbackIdle EXCEPT !.state = "raised", !.script = "throw", !.err = e]
    /\ UNCHANGED <<heap, handles>>

\* The end of eval (context.rs 336-348): into_jobject(..).unwrap() on a value,
\* handle_exception and null on an error.
EvalEnds(mode) ==
    /\ run.state \in {"raised", "valued"}
    /\ LET r == IntoJobject(run.got.val, handles)
           h == HandleException(run.err, mode)
       IN  run' = IF run.state = "valued"
                  THEN (IF r.some
                        THEN [run EXCEPT !.state = "done",
                                         !.out = [how |-> "value", hv |-> r.hv, exc |-> NoPending]]
                        ELSE [run EXCEPT !.state = "aborted"])
                  ELSE (IF h.how = "panic"
                        THEN [run EXCEPT !.state = "aborted"]
                        ELSE [run EXCEPT !.state = "done",
                                         !.out = [how |-> "exception", hv |-> HostNull,
                                                  exc |-> h.exc]])
    /\ UNCHANGED <<heap, handles>>

\* The function branch of into_jobject (js_java_proxy.rs 72-109) with the read of the
\* name of the function: an Err of f.get(PredefinedAtom::Name) is replaced by null.
NameRead(ok, name) == [ok |-> ok, name |-> name]
NameReads == {NameRead(TRUE, "f"), NameRead(FALSE, "")}
FunctionIntoJobject(value, read, hs) ==
    LET function_name == IF read.ok THEN HText("String", read.name) ELSE HostNull
    IN  Some([HWrapper("QuickJSFunction", Len(hs) + 1) EXCEPT !.s = function_name.s],
             Append(hs, Handle("function", value.ref)))

\* eval of a script whose value is the function f, as long as the host has room for
\* the handle (context.rs 336-342). Object.defineProperty(f, "name", { get() { throw
\* new Error("bad") } }) makes the read of the name fail.
EvalReturnsFunction(read) ==
    /\ run.state = "idle"
    /\ Len(handles) < MaxHandles
    /\ LET value == SRef("function", 3)
           r == FunctionIntoJobject(value, read, handles)
       IN  /\ run' = [CallbackIdle EXCEPT
                        !.state = "done", !.script = "function",
                        !.got = Gave(value),
                        !.err = IF read.ok THEN NoError
                                ELSE EngineException(ThrowMessage("bad")),
                        !.out = [how |-> "value", hv |-> r.hv, exc |-> NoPending]]
           /\ handles' = r.hs
    /\ UNCHANGED heap

\* The host takes the result or the exception and is ready for the next evaluation.
CallbackAgain ==
    /\ run.state = "done"
    /\ run' = CallbackIdle
    /\ UNCHANGED <<heap, handles>>

NextCallback ==
    \/ \E script \in CallScripts, cls \in CallableClasses, bhv \in Behaviours,
          args \in ScriptArgs :
          EvalCallsHost(script, cls, bhv, args)
          /\ UNCHANGED <<ctxBox, ctxStack, engine, frames, fault, last, cv>>
    \/ ScriptEnds /\ UNCHANGED <<ctxBox, ctxStack, engine, frames, fault, last, cv>>
    \/ \E e \in EngineErrors :
          EvalFails(e) /\ UNCHANGED <<ctxBox, ctxStack, engine, frames, fault, last, cv>>
    \/ \E mode \in PendingModes :
          EvalEnds(mode) /\ UNCHANGED <<ctxBox, ctxStack, engine, frames, fault, last, cv>>
    \/ \E read \in NameReads :
          EvalReturnsFunction(read)
          /\ UNCHANGED <<ctxBox, ctxStack, engine, frames, fault, last, cv>>
    \/ CallbackAgain /\ UNCHANGED <<ctxBox, ctxStack, engine, frames, fault, last, cv>>

SpecCallback == InitCallback /\ [][NextCallback]_vars


\* ------------------------------------------------- claims under SpecCallback
\* The evaluation called the host callable with arguments that have host values, and
\* the callable threw.
HostThrew ==
    /\ run.script \in CallScripts
    /\ \A i \in 1..Len(run.args) : IntoJobject(run.args[i], handles).some
    /\ run.bhv.does = "throws"

\* C13: exception round trip. When a host callable throws an exception of class E
\* with message m and the script lets it propagate or catches and rethrows it, the
\* evaluation fails with a host script exception whose cause is of class E with
\* message m.
C13_ExceptionRoundTrip ==
    (HostThrew /\ run.bhv.exc.hasMsg /\ run.state \in {"done", "aborted"})
        => /\ run.state = "done"
           /\ run.out.how = "exception"
           /\ run.out.exc.cls = "QuickJSScriptException"
           /\ run.out.exc.cause = Cause(run.bhv.exc.cls, run.bhv.exc.msg)

\* C14: host errors are caught at the callback boundary. For every kind of wrapped
\* host callable (function, consumer, two-argument function, bi-consumer, supplier,
\* variadic) an error the callable throws becomes a thrown script exception that
\* carries the class name, the file and the line of the host exception; the bridge
\* never panics because the callable threw.
C14_HostErrorBecomesScriptException ==
    (HostThrew /\ run.state # "idle")
        => /\ run.got.how = "thrown"
           /\ run.got.thrown.kind = "exception"
           /\ run.got.thrown.marked
           /\ run.got.thrown.original_java_exception_class = run.bhv.exc.cls
           /\ run.got.thrown.original_java_exception_file = run.bhv.exc.file
           /\ run.got.thrown.original_java_exception_line = run.bhv.exc.line

\* C15: the exception bridge classifies every script-side failure into one host
\* exception: an exception object gives a script exception with its message, its
\* stack, its file name (the placeholder when it has none) and its line; a thrown
\* string gives a message-only exception; any other thrown value gives the generic
\* unknown-script-exception; any other engine error gives an exception with the
\* description of the error.
C15_FailureClassified ==
    (run.err.kind # "none" /\ run.state \in {"done", "aborted"})
        => LET x == run.err.thrown
               exc == run.out.exc
           IN  /\ run.state = "done"
               /\ run.out.how = "exception"
               /\ exc.cls = "QuickJSScriptException"
               /\ IF run.err.kind # "Exception" THEN exc = MessageOnly(run.err.kind)
                  ELSE IF x.kind = "string" THEN exc = MessageOnly(x.message)
                  ELSE IF x.kind # "exception" THEN exc = MessageOnly(UnknownType)
                  ELSE /\ exc.msg = x.message
                       /\ exc.stack = x.stack
                       /\ exc.file = IF x.fileName # "" THEN x.fileName
                                     ELSE IF x.marked THEN x.original_java_exception_file
                                     ELSE Placeholder
                       /\ exc.line = x.lineNumber


\* C24: when a thrown script exception names an original host exception class, the
\* bridge attaches a reconstructed exception of that class as cause; when the class
\* cannot be located or cannot be constructed, what the failed attempt left pending
\* is cleared and the host script exception is raised without a cause: the boundary
\* operation returns with exactly one host exception pending.
C24_CauseOrCleanFallback ==
    (/\ run.err.kind = "Exception"
     /\ run.err.thrown.kind = "exception"
     /\ run.err.thrown.marked
     /\ run.state \in {"done", "aborted"})
        => LET c == run.err.thrown.original_java_exception_class
           IN  /\ run.state = "done"
               /\ run.out.how = "exception"
               /\ run.out.exc.cls = "QuickJSScriptException"
               /\ run.out.exc.cause = IF FindClass(c) /\ HasStringConstructor(c)
                                       THEN Cause(c, run.err.thrown.message)
                                       ELSE NoCause

\* C25: a host exception that crosses the script and is reconstructed keeps its
\* message, its type and its location: the host exception finally raised has the
\* message, a cause of the class, the file and the line that the markers recorded
\* when the host exception was turned into a script exception.
C25_LocationSurvives ==
    (HostThrew /\ run.state = "done" /\ run.err.thrown.marked)
        => /\ run.out.how = "exception"
           /\ run.out.exc.msg = run.bhv.exc.msg
           /\ run.out.exc.cause.cls = run.bhv.exc.cls
           /\ run.out.exc.file = run.bhv.exc.file
           /\ run.out.exc.line = run.bhv.exc.line

\* C16: no engine failure met while a script value is converted to a host value is
\* swallowed. When reading the name of a function fails, the operation ends with a
\* host exception pending: not with a null in place of the name, not with a line in
\* the log and not with a success.
C16_ConversionFailureSurfaces ==
    (run.script = "function" /\ run.err.kind # "none" /\ run.state = "done")
        => run.out.how = "exception"

\* C19: a host unary function f set as a global and called from script with a returns
\* to_script(f(to_host(a))): inc(41) with f(x) = x + 1 gives the host 42, and a
\* function that returns 42 whatever it is given gives 42 for every argument.
C19_UnaryCallComposes ==
    (/\ run.cls = "Function" /\ run.script \in CallScripts /\ run.state # "idle"
     /\ \/ run.bhv.does = "returns"
        \/ run.bhv.does = "inc" /\ run.args[1].tag = "int")
        => LET expected == IF run.bhv.does = "returns" THEN run.bhv.ret
                           ELSE HInt(IncInt(run.args[1].i))
           IN  /\ run.got.how = "value"
               /\ run.got.val = [SV("int") EXCEPT !.i = expected.i]
               /\ run.state = "done" => run.out = [how |-> "value", hv |-> expected,
                                                    exc |-> NoPending]


\* ================================================= SpecLife: handles and lifetimes
\* The host exports script values, uses, re-imports and closes the handles, while the
\* script copies and drops its own references. heap gives every engine object its
\* reference count and the number of references the script holds; handles gives
\* every address the box that lives there; run.wrappers are the host wrappers that
\* are not closed, each with the address in its ptr field and the object it was
\* made for.
MaxScriptRefs == 2
Addresses == 1..MaxHandles
LifeKinds == <<"array", "object", "function">>
Objects == 1..Len(LifeKinds)

NoBox == [live |-> FALSE, kind |-> "none", ref |-> 0]
LiveBox(kind, ref) == [live |-> TRUE, kind |-> kind, ref |-> ref]
Wrapper(addr, ref) == [addr |-> addr, ref |-> ref]

\* An allocator that may give any address.
AnyAddresses(boxes) == Addresses
\* Box::new and Box::into_raw (js_java_proxy.rs 58, 82-83, 120): the allocator gives
\* an address that holds no live box; the address of a freed box may come again.
FreeAddresses(boxes) == {a \in Addresses : ~boxes[a].live}

\* The engine adds and removes a reference; an object without references is freed.
Dup(objs, v) == [objs EXCEPT ![v].rc = @ + 1]
Free(objs, v) ==
    [objs EXCEPT ![v].rc = @ - 1, ![v].freed = (objs[v].rc = 1)]

\* The reference a handle holds, taken by Persistent::save and Function::clone
\* (js_java_proxy.rs 57, 74, 119).
SaveTakesReference(objs, v) == Dup(objs, v)

\* The value into_js makes of a handle (java_js_proxy.rs 786-832): clone().restore()
\* counts a reference for an array and an object, Value::from_raw(func.as_raw())
\* counts none for a function.
RestoreForScript(objs, kind, v) ==
    IF kind = "function" THEN objs ELSE Dup(objs, v)

RemoveAt(seq, i) == SubSeq(seq, 1, i - 1) \o SubSeq(seq, i + 1, Len(seq))
\* The wrappers are kept in the order of their addresses.
InsertWrapper(seq, w) ==
    LET before == Cardinality({i \in 1..Len(seq) : seq[i].addr <= w.addr})
    IN  SubSeq(seq, 1, before) \o <<w>> \o SubSeq(seq, before + 1, Len(seq))

LifeIdle == [wrappers |-> <<>>, aborted |-> FALSE, used |-> 0]

\* The script holds one reference to each of a = [1], o = {k: 1}, f = function () {}.
InitLife ==
    /\ InitCommon
    /\ run = LifeIdle
    /\ heap = [v \in Objects |-> [kind |-> LifeKinds[v], rc |-> 1, script |-> 1,
                                  freed |-> FALSE]]
    /\ handles = [a \in Addresses |-> NoBox]
    /\ cv = NoConv

Usable(w) == ~run.aborted /\ ~heap[w.ref].freed

\* The state of a process that has ended.
Gone ==
    [run |-> [LifeIdle EXCEPT !.aborted = TRUE],
     handles |-> [a \in Addresses |-> NoBox],
     heap |-> [v \in Objects |-> [kind |-> LifeKinds[v], rc |-> 0, script |-> 0,
                                  freed |-> TRUE]]]


\* to_host of an array, an object or a function the script holds: into_jobject boxes
\* a saved reference and gives the host the address (js_java_proxy.rs 48-133).
ExportValue(v, a) ==
    /\ ~run.aborted
    /\ ~heap[v].freed /\ heap[v].script >= 1
    /\ Len(run.wrappers) < MaxHandles
    /\ a \in FreeAddresses(handles)
    /\ handles' = [handles EXCEPT ![a] = LiveBox(heap[v].kind, v)]
    /\ heap' = SaveTakesReference(heap, v)
    /\ run' = [run EXCEPT !.wrappers = InsertWrapper(@, Wrapper(a, v))]

\* The script copies a reference it holds (var b = a).
ScriptCopies(v) ==
    /\ ~run.aborted
    /\ ~heap[v].freed /\ heap[v].script >= 1 /\ heap[v].script < MaxScriptRefs
    /\ heap' = [Dup(heap, v) EXCEPT ![v].script = @ + 1]
    /\ UNCHANGED <<handles, run>>

\* The script drops a reference it holds (a = null).
ScriptDrops(v) ==
    /\ ~run.aborted
    /\ ~heap[v].freed /\ heap[v].script >= 1
    /\ heap' = [Free(heap, v) EXCEPT ![v].script = @ - 1]
    /\ UNCHANGED <<handles, run>>

\* A size, get, set or call on a handle (js_array.rs 36-48, js_object.rs 25-37,
\* foreign_function.rs 55-61): Box::from_raw, a clone that is restored and dropped
\* again, Box::into_raw of the same box.
UseHandle(i) ==
    /\ i \in 1..Len(run.wrappers) /\ Usable(run.wrappers[i])
    /\ run.used # run.wrappers[i].addr
    /\ run' = [run EXCEPT !.used = run.wrappers[i].addr]
    /\ UNCHANGED <<heap, handles>>

\* The closure of an operation panics (js_array.rs 40, 176): the box, a local of
\* with_array, is dropped with its reference and the panic ends the process, and
\* with it every box and every engine object.
UsePanics(i) ==
    /\ i \in 1..Len(run.wrappers) /\ Usable(run.wrappers[i])
    /\ handles' = Gone.handles
    /\ heap' = Gone.heap
    /\ run' = Gone.run

\* The host passes a wrapper back into script (java_js_proxy.rs 786-796, 813-832):
\* the script holds one more reference; the box stays where it is.
ReimportHandle(i) ==
    /\ i \in 1..Len(run.wrappers) /\ Usable(run.wrappers[i])
    /\ LET w == run.wrappers[i]
       IN  /\ heap[w.ref].script < MaxScriptRefs
           /\ heap' = [RestoreForScript(heap, handles[w.addr].kind, w.ref)
                          EXCEPT ![w.ref].script = @ + 1]
    /\ UNCHANGED <<handles, run>>

\* closeArray, closeObject, closeFunction (js_array.rs 80-88, js_object.rs 79-87,
\* foreign_function.rs 13-23): the box is dropped with the reference it holds.
CloseHandle(i) ==
    /\ i \in 1..Len(run.wrappers) /\ Usable(run.wrappers[i])
    /\ LET w == run.wrappers[i]
       IN  /\ handles' = [handles EXCEPT ![w.addr] = NoBox]
           /\ heap' = Free(heap, w.ref)
           /\ run' = [run EXCEPT !.wrappers = RemoveAt(@, i)]

\* close on a handle whose value the engine has freed: the drop releases a reference
\* to freed memory, which crashes the process or goes unnoticed.
CloseDangling(i, crash) ==
    /\ i \in 1..Len(run.wrappers)
    /\ ~run.aborted /\ heap[run.wrappers[i].ref].freed
    /\ IF crash
       THEN handles' = Gone.handles /\ heap' = Gone.heap /\ run' = Gone.run
       ELSE /\ handles' = [handles EXCEPT ![run.wrappers[i].addr] = NoBox]
            /\ run' = [run EXCEPT !.wrappers = RemoveAt(@, i)]
            /\ UNCHANGED heap

NextLife ==
    \/ \E v \in Objects, a \in Addresses :
          ExportValue(v, a)
          /\ UNCHANGED <<ctxBox, ctxStack, engine, frames, fault, last, cv>>
    \/ \E v \in Objects :
          ScriptCopies(v) /\ UNCHANGED <<ctxBox, ctxStack, engine, frames, fault, last, cv>>
    \/ \E v \in Objects :
          ScriptDrops(v) /\ UNCHANGED <<ctxBox, ctxStack, engine, frames, fault, last, cv>>
    \/ \E i \in Addresses :
          UseHandle(i) /\ UNCHANGED <<ctxBox, ctxStack, engine, frames, fault, last, cv>>
    \/ \E i \in Addresses :
          UsePanics(i) /\ UNCHANGED <<ctxBox, ctxStack, engine, frames, fault, last, cv>>
    \/ \E i \in Addresses :
          ReimportHandle(i) /\ UNCHANGED <<ctxBox, ctxStack, engine, frames, fault, last, cv>>
    \/ \E i \in Addresses :
          CloseHandle(i) /\ UNCHANGED <<ctxBox, ctxStack, engine, frames, fault, last, cv>>
    \/ \E i \in Addresses, crash \in BOOLEAN :
          CloseDangling(i, crash)
          /\ UNCHANGED <<ctxBox, ctxStack, engine, frames, fault, last, cv>>

SpecLife == InitLife /\ [][NextLife]_vars

\* C17: a handle keeps its script value alive. From the moment to_host returns a
\* function, array or object handle until close is called on it, the engine never
\* frees the value, whatever the script drops, whatever other handles are closed and
\* however the handles are used in between.
C17_HandleKeepsValueAlive ==
    ~run.aborted => \A i \in 1..Len(run.wrappers) : ~heap[run.wrappers[i].ref].freed

BoxesOf(v) == Cardinality({a \in Addresses : handles[a].live /\ handles[a].ref = v})

\* C26: passing a function handle back into script takes a reference of its own for
\* the script value it produces. Whatever number of re-imports and releases has
\* happened, the reference count of a function with a handle is the number of
\* references the script holds plus one for each handle, as it was before the first
\* re-import, and the handle stays usable until it is closed.
C26_ReimportTakesOwnReference ==
    ~run.aborted =>
        \A i \in 1..Len(run.wrappers) :
            LET v == run.wrappers[i].ref
            IN  heap[v].kind = "function" =>
                   /\ ~heap[v].freed
                   /\ heap[v].rc = heap[v].script + BoxesOf(v)


\* ================================================= SpecArray: insert and remove
\* The host inserts into and removes from a script array through its handle, and the
\* script may freeze the array. heap is the array: its elements and whether it is
\* frozen; run is the last operation with what it was given and what it reported.
MaxArrayLen == 3
ArrayIndices == -1..(MaxArrayLen + 1)
ArrayValues == {HInt(7), HText("String", "x"), HText("BrokenObject", "toString throws")}

Min(a, b) == IF a < b THEN a ELSE b
Max(a, b) == IF a > b THEN a ELSE b

\* A splice that overwrites the element at the index with what it is given.
SpliceOverwrites(items, index, delete_count, ins) ==
    LET start == Min(Max(index, 0), Len(items))
    IN  SubSeq(items, 1, start) \o ins \o SubSeq(items, start + 2, Len(items))

\* Array.prototype.splice as splice_array calls it (js_array.rs 228-245): a negative
\* index counts from the end, an index beyond the end is the end, and the elements
\* after the deleted ones follow what is inserted.
Splice(items, index, delete_count, ins) ==
    LET len == Len(items)
        start == IF index < 0 THEN Max(len + index, 0) ELSE Min(index, len)
        deleted == Min(Max(delete_count, 0), len - start)
    IN  SubSeq(items, 1, start) \o ins \o SubSeq(items, start + deleted + 1, len)

\* splice_array on an array that may be frozen: splice throws a TypeError on a frozen
\* array.
SpliceArray(array, index, delete_count, ins) ==
    IF array.frozen THEN [ok |-> FALSE, items |-> array.items]
    ELSE [ok |-> TRUE, items |-> Splice(array.items, index, delete_count, ins)]

NoArrayOp == [op |-> "none", index |-> 0, value |-> NoSV, before |-> <<>>,
              ok |-> FALSE, pending |-> FALSE]

InitArray ==
    /\ InitCommon
    /\ run = NoArrayOp
    /\ heap = [items |-> <<>>, frozen |-> FALSE]
    /\ handles = <<Handle("array", 1)>>
    /\ cv = NoConv

\* addValue: js_array.rs 135-159. The value is the result of from_object, as in
\* setValue (js_array.rs 117-123): an Err of the conversion makes the call of splice
\* an Err. An error leaves a host exception pending and reports false.
AddValue(index, v) ==
    /\ Len(heap.items) < MaxArrayLen
    /\ LET r == FromObject(v)
           j == IntoJs(r.pv, 1, handles, FALSE)
           value == IF r.ok /\ j.ok THEN j.val ELSE NoSV
           result == IF r.ok /\ j.ok THEN SpliceArray(heap, index, 0, <<value>>)
                     ELSE [ok |-> FALSE, items |-> heap.items]
       IN  /\ heap' = [heap EXCEPT !.items = result.items]
           /\ run' = [op |-> "add", index |-> index, value |-> value,
                      before |-> heap.items, ok |-> result.ok, pending |-> ~result.ok]
    /\ UNCHANGED handles

\* removeValue: js_array.rs 192-214.
RemoveValue(index) ==
    /\ LET result == SpliceArray(heap, index, 1, <<>>)
       IN  /\ heap' = [heap EXCEPT !.items = result.items]
           /\ run' = [op |-> "remove", index |-> index, value |-> NoSV,
                      before |-> heap.items, ok |-> result.ok, pending |-> ~result.ok]
    /\ UNCHANGED handles

\* The script freezes the array (Object.freeze(a)).
ScriptFreezes ==
    /\ ~heap.frozen
    /\ heap' = [heap EXCEPT !.frozen = TRUE]
    /\ UNCHANGED <<run, handles>>

NextArray ==
    \/ \E index \in ArrayIndices, v \in ArrayValues :
          AddValue(index, v) /\ UNCHANGED <<ctxBox, ctxStack, engine, frames, fault, last, cv>>
    \/ \E index \in ArrayIndices :
          RemoveValue(index) /\ UNCHANGED <<ctxBox, ctxStack, engine, frames, fault, last, cv>>
    \/ ScriptFreezes /\ UNCHANGED <<ctxBox, ctxStack, engine, frames, fault, last, cv>>

SpecArray == InitArray /\ [][NextArray]_vars

\* C20: on an array handle of size n, insert-at(i, v) with 0 <= i <= n makes the size
\* n + 1, puts v at index i and moves the elements that were at i and above up by
\* one; remove-at(i) with 0 <= i < n makes the size n - 1 and moves the elements that
\* were above i down by one; the elements below i stay. Both report true, unless the
\* engine fails (the array is frozen, the value has no script value): then they
\* report false and a host exception is pending.
C20_InsertAndRemoveShift ==
    LET n == Len(run.before)
        i == run.index
        now == heap.items
    IN  /\ (run.op = "add" /\ 0 <= i /\ i <= n) =>
               IF run.pending THEN ~run.ok /\ now = run.before
               ELSE /\ run.ok
                    /\ Len(now) = n + 1
                    /\ now[i + 1] = run.value
                    /\ \A j \in 1..i : now[j] = run.before[j]
                    /\ \A j \in (i + 1)..n : now[j + 1] = run.before[j]
        /\ (run.op = "remove" /\ 0 <= i /\ i < n) =>
               IF run.pending THEN ~run.ok /\ now = run.before
               ELSE /\ run.ok
                    /\ Len(now) = n - 1
                    /\ \A j \in 1..i : now[j] = run.before[j]
                    /\ \A j \in (i + 2)..n : now[j - 1] = run.before[j]

\* A value was inserted in the middle of an array: an element stayed below it and an
\* element moved up.
C20_Witness ==
    /\ run.op = "add" /\ run.ok
    /\ 0 < run.index /\ run.index < Len(run.before)
    /\ heap.items[run.index + 1] = run.value
    /\ heap.items[run.index + 2] # run.value

\* ------------------------------------------------- SpecThreads: two host threads
\* CONTEXT_STACK is declared thread_local (context.rs 17-19). SpecThreads runs the
\* with_context entry points on two host threads that are not confined to a context
\* of their own, so that one thread asks for a context that is active on the other.

\* Maximal number of nested native frames per thread in SpecThreads.
ThreadDepth == 2

Workers == {1, 2}
\* The stack does not depend on which with_context entry point is called: eval stands
\* for all of them, and lets script call back into the host.
ThreadOps == {"eval"}

\* A stack that is one static of the process, shared by every thread.
StaticStack(stacks, t) == stacks[1]

\* CONTEXT_STACK.with(|stack| ..): the stack of the calling thread.
LocalStack(stacks, t) == stacks[t]

\* Context::with on a context whose scope is held by another thread. The runtime's
\* lock blocks the caller until the holder leaves (build with the engine's lock a
\* mutex); otherwise the borrow flag is read without synchronisation: the caller
\* panics on a flag seen as taken, or enters beside the holder.
CrossThreadOutcomes == {"blocks", "scope_panic", "races"}

WorkerAborted == \E t \in Workers : fault[t].kind = "abort"

\* Host code of worker t is running, at top level or inside a host callable.
WorkerRuns(t) ==
    /\ ~WorkerAborted
    /\ fault[t].kind = "none"
    /\ \/ frames[t] = <<>>
       \/ /\ frames[t] # <<>>
          /\ Len(frames[t]) < ThreadDepth
          /\ Top(t).op = "callback"

InitThreads ==
    /\ ctxBox = [c \in Contexts |-> "live"]
    /\ ctxStack = [t \in Workers |-> <<>>]
    /\ engine = [c \in Contexts |-> 0]
    /\ frames = [t \in Workers |-> <<>>]
    /\ fault = [t \in Workers |-> NoFault]
    /\ last = [t \in Workers |-> NoCall]
    /\ InitIdle

\* The frame of a with_context call that entered f.
EnteredFrame(t, op, c, r) ==
    [op |-> op, ctx |-> c, pushed |-> r.pushed, opened |-> r.opened,
     scope |-> r.scope, saved |-> LocalStack(ctxStack, t), waits |-> FALSE]

\* An entry point built on with_context, called on worker t, up to the call of the
\* closure (context.rs 22-58).
ThreadCalls(t, op, c) ==
    /\ WorkerRuns(t)
    /\ ctxBox[c] = "live"
    /\ LET r == WithContextEnter(t, c, LocalStack(ctxStack, t), Len(frames[t]) + 1)
           enter == /\ frames' = [frames EXCEPT ![t] = Append(@, EnteredFrame(t, op, c, r))]
                    /\ ctxStack' = [ctxStack EXCEPT ![t] = r.stack]
                    /\ engine' = IF r.opened THEN [engine EXCEPT ![c] = t] ELSE engine
                    /\ UNCHANGED <<ctxBox, fault, last>>
       IN  IF r.opened /\ engine[c] # 0
           THEN \E k \in CrossThreadOutcomes :
                   \/ /\ k = "blocks"
                      /\ frames' = [frames EXCEPT ![t] = Append(@,
                             [op |-> op, ctx |-> c, pushed |-> FALSE, opened |-> FALSE,
                              scope |-> NoScope, saved |-> LocalStack(ctxStack, t),
                              waits |-> TRUE])]
                      /\ UNCHANGED <<ctxBox, ctxStack, engine, fault, last>>
                   \/ /\ k = "scope_panic"
                      /\ fault' = [fault EXCEPT ![t] = [kind |-> k, op |-> op, ctx |-> c]]
                      /\ UNCHANGED <<ctxBox, ctxStack, engine, frames, last>>
                   \/ /\ k = "races"
                      /\ enter
           ELSE enter

\* The holder has left the scope: the blocked Context::with returns, with_context
\* pushes the entry and calls f (context.rs 46-58).
ThreadAcquires(t) ==
    /\ ~WorkerAborted
    /\ fault[t].kind = "none"
    /\ frames[t] # <<>>
    /\ Top(t).waits
    /\ engine[Top(t).ctx] = 0
    /\ LET f == Top(t)
           r == WithContextEnter(t, f.ctx, LocalStack(ctxStack, t), Len(frames[t]))
       IN  /\ frames' = [frames EXCEPT ![t] = Append(Pop(@), EnteredFrame(t, f.op, f.ctx, r))]
           /\ ctxStack' = [ctxStack EXCEPT ![t] = r.stack]
           /\ engine' = [engine EXCEPT ![f.ctx] = t]
           /\ UNCHANGED <<ctxBox, fault, last>>

\* The closure of a with_context call on worker t returns or panics (context.rs 49-60).
ThreadReturns(t, how) ==
    /\ ~WorkerAborted
    /\ fault[t].kind = "none"
    /\ frames[t] # <<>>
    /\ Top(t).op \in ThreadOps
    /\ ~Top(t).waits
    /\ how \in ExitPaths(Top(t).op)
    /\ LET f == Top(t)
           after == WithContextExit(LocalStack(ctxStack, t), f.pushed, how)
       IN  /\ ctxStack' = [ctxStack EXCEPT ![t] = after]
           /\ engine' = IF f.opened THEN [engine EXCEPT ![f.ctx] = 0] ELSE engine
           /\ ctxBox' = [ctxBox EXCEPT ![f.ctx] = Rebox(f.op, how, @)]
           /\ frames' = [frames EXCEPT ![t] = Pop(@)]
           /\ fault' = IF how = "unwind"
                       THEN [fault EXCEPT ![t] = [kind |-> "abort", op |-> f.op, ctx |-> f.ctx]]
                       ELSE fault
           /\ last' = [last EXCEPT ![t] = [op |-> f.op, ctx |-> f.ctx, how |-> how,
                                           pushed |-> f.pushed, reused |-> ~f.pushed,
                                           saved |-> f.saved, after |-> after]]

\* Script running on worker t calls a host callable (java_js_proxy.rs 460).
ThreadScriptCallsHost(t) ==
    /\ ~WorkerAborted
    /\ fault[t].kind = "none"
    /\ frames[t] # <<>>
    /\ Len(frames[t]) < ThreadDepth
    /\ Top(t).op \in ScriptOps
    /\ ~Top(t).waits
    /\ frames' = [frames EXCEPT ![t] = Append(@,
            [op |-> "callback", ctx |-> Top(t).ctx, pushed |-> FALSE, opened |-> FALSE,
             scope |-> Top(t).scope, saved |-> LocalStack(ctxStack, t), waits |-> FALSE])]
    /\ UNCHANGED <<ctxBox, ctxStack, engine, fault, last>>

\* The host callable returns to the script that called it (java_js_proxy.rs 474-482).
ThreadHostReturns(t) ==
    /\ ~WorkerAborted
    /\ fault[t].kind = "none"
    /\ frames[t] # <<>>
    /\ Top(t).op = "callback"
    /\ frames' = [frames EXCEPT ![t] = Pop(@)]
    /\ UNCHANGED <<ctxBox, ctxStack, engine, fault, last>>

NextThreads ==
    \/ \E t \in Workers, c \in Contexts, op \in ThreadOps : ThreadCalls(t, op, c) /\ Idle
    \/ \E t \in Workers : ThreadAcquires(t) /\ Idle
    \/ \E t \in Workers, how \in {"ok", "unwind", "script_exception"} :
          ThreadReturns(t, how) /\ Idle
    \/ \E t \in Workers : ThreadScriptCallsHost(t) /\ Idle
    \/ \E t \in Workers : ThreadHostReturns(t) /\ Idle

SpecThreads == InitThreads /\ [][NextThreads]_vars

\* The entries that the calls in progress on one thread pushed, oldest first.
RECURSIVE OwnEntries(_)
OwnEntries(fs) ==
    IF fs = <<>> THEN <<>>
    ELSE LET f == fs[Len(fs)]
             below == OwnEntries(Pop(fs))
         IN  IF f.pushed THEN Append(below, [ptr |-> f.ctx, scope |-> f.scope]) ELSE below

\* C21: the reentrancy stack is per thread. In every interleaving of with_context
\* calls on two threads, each thread's stack holds exactly the entries that the
\* calls in progress on that thread pushed; no call runs with a scope that another
\* thread opened; a call for a context that is active on the other thread only
\* finds no entry and pushes and pops its own.
C21_StackIsPerThread ==
    \A t \in Workers :
        /\ ctxStack[t] = OwnEntries(frames[t])
        /\ \A i \in 1..Len(ctxStack[t]) : ctxStack[t][i].scope.t = t
        /\ \A i \in 1..Len(frames[t]) :
              (frames[t][i].op \in ThreadOps /\ ~frames[t][i].waits)
                  => frames[t][i].scope.t = t
        /\ last[t].op \in ThreadOps =>
              (last[t].pushed => last[t].after = last[t].saved)

\* Thread 2 called with_context for a context that is active on thread 1: it found
\* no entry of its own, and waits for the scope or holds an entry of its own.
C21_Witness ==
    \E c \in Contexts :
        /\ HasEntry(ctxStack[1], c)
        /\ \E i \in 1..Len(frames[2]) :
              /\ frames[2][i].ctx = c
              /\ frames[2][i].op \in ThreadOps
              /\ frames[2][i].waits \/ frames[2][i].pushed

\* ------------------------------------------------- SpecLocale: the numeric locale
\* TemporaryLocale (with_locale.rs), built with the locale workaround. The state is
\* kept in run: the calling thread's locale (0 is LC_GLOBAL_LOCALE, otherwise a
\* locale object), the process's global locale, the locale objects, the calls of
\* with in progress, the last formatted number and the last finished call.

\* Maximal nesting of TemporaryLocale::with calls (eval inside a host callable).
LocaleDepth == 3

LocaleObjects == 1..LocaleDepth
\* The locale the JVM set for the process.
GlobalLocales == {"C", "de_DE", "en_US"}
\* The locales newlocale can create on the system, and one it cannot.
Installed == {"en_US", "de_DE"}
Requested == Installed \cup {"xx_XX"}
\* DEFAULT_LOCALE: with_locale.rs 15.
DefaultLocale == "en_US"

\* The decimal separator of a numeric locale.
DecimalPoint(name) == IF name = "de_DE" THEN "," ELSE "."

\* sprintf("%f", 2.2) under a numeric locale: with_locale.rs 114, 128.
Sprintf(name) == IF DecimalPoint(name) = "," THEN "2,200000" ELSE "2.200000"

\* The numeric locale a thread formats with.
NumericOf(st) == IF st.thread = 0 THEN st.global ELSE st.objs[st.thread]

\* A with that leaves the locale it installed.
KeepLocale(current, previous) == current

\* libc::uselocale(current_locale) after f: with_locale.rs 60.
ResetLocale(current, previous) == previous

NoSeen == [req |-> "none", out |-> ""]
NoDone == [req |-> "none", before |-> 0, after |-> 0]

LocaleIdle(g) ==
    [state |-> "locale", thread |-> 0, global |-> g,
     objs |-> [o \in LocaleObjects |-> "free"], calls |-> <<>>,
     seen |-> NoSeen, done |-> NoDone, aborted |-> FALSE]

\* The process after a panic: nothing of it is left.
LocaleGone == [LocaleIdle("C") EXCEPT !.aborted = TRUE]

InitLocale ==
    /\ InitCommon
    /\ \E g \in GlobalLocales : run = LocaleIdle(g)
    /\ heap = <<>>
    /\ handles = <<>>
    /\ cv = NoConv

LocaleTop == run.calls[Len(run.calls)]

\* TemporaryLocale::new(l) followed by with up to the call of f: newlocale creates an
\* object (panic when the locale is not installed), uselocale installs it for the
\* thread and returns the thread's previous locale (with_locale.rs 33-50, 53-58).
\* by is "eval" for the use in eval (context.rs 331-334), which asks for the default.
TemporaryLocaleWith(l, by) ==
    /\ ~run.aborted
    /\ Len(run.calls) < LocaleDepth
    /\ by = "eval" => l = DefaultLocale
    /\ IF l \notin Installed
       THEN run' = LocaleGone
       ELSE LET o == CHOOSE x \in LocaleObjects :
                        /\ run.objs[x] = "free"
                        /\ \A y \in LocaleObjects : run.objs[y] = "free" => x <= y
            IN  run' = [run EXCEPT
                    !.objs = [@ EXCEPT ![o] = l],
                    !.thread = o,
                    !.calls = Append(@, [req |-> l, by |-> by, locale |-> o,
                                          previous |-> run.thread])]
    /\ UNCHANGED <<ctxBox, ctxStack, engine, frames, fault, last, heap, handles, cv>>

\* f formats a number (the script parses or prints a float): with_locale.rs 107-117.
FormatsNumber ==
    /\ ~run.aborted
    /\ run.calls # <<>>
    /\ run' = [run EXCEPT !.seen = [req |-> LocaleTop.req, out |-> Sprintf(NumericOf(run))]]
    /\ UNCHANGED <<ctxBox, ctxStack, engine, frames, fault, last, heap, handles, cv>>

\* f returns: uselocale(current_locale), then the TemporaryLocale is dropped and its
\* object freed (with_locale.rs 59-62, 66-73).
WithReturns ==
    /\ ~run.aborted
    /\ run.calls # <<>>
    /\ LET c == LocaleTop
           after == ResetLocale(run.thread, c.previous)
       IN  run' = [run EXCEPT
                !.thread = after,
                !.objs = [@ EXCEPT ![c.locale] = "free"],
                !.calls = SubSeq(@, 1, Len(@) - 1),
                !.done = [req |-> c.req, before |-> c.previous, after |-> after]]
    /\ UNCHANGED <<ctxBox, ctxStack, engine, frames, fault, last, heap, handles, cv>>

\* f panics: with has no guard, the locale is not reset while the stack unwinds;
\* the panic ends the process at the native boundary (or the test).
WithPanics ==
    /\ ~run.aborted
    /\ run.calls # <<>>
    /\ run' = LocaleGone
    /\ UNCHANGED <<ctxBox, ctxStack, engine, frames, fault, last, heap, handles, cv>>

NextLocale ==
    \/ \E l \in Requested, by \in {"eval", "test"} : TemporaryLocaleWith(l, by)
    \/ FormatsNumber
    \/ WithReturns
    \/ WithPanics

SpecLocale == InitLocale /\ [][NextLocale]_vars

C27_OneEntryPerContext ==
    \A t \in Threads :
        \A i, j \in 1..Len(ctxStack[t]) :
            i # j => ctxStack[t][i].ptr # ctxStack[t][j].ptr

\* A call for a context that had an entry has returned, and the stack now holds the
\* entries of two contexts below a nest of three calls or more.
C27_Witness ==
    \E t \in Threads :
        /\ Len(ctxStack[t]) >= 2
        /\ Len(frames[t]) >= 3
        /\ last[t].op \in WithContextOps
        /\ last[t].reused

\* C28: stack entries are pushed and popped in strict LIFO order. The stack of a
\* thread is, oldest first, the entries of the calls in progress that pushed one: the
\* entry of an outer call is on the stack as long as the call runs, and the entry a
\* call removes when it exits is the top one, the one it pushed itself, also when
\* calls for different contexts are nested.
C28_StrictLifo ==
    \A t \in Threads :
        /\ ctxStack[t] = OwnEntries(frames[t])
        /\ last[t].pushed => last[t].after = last[t].saved

\* An inner call for a second context has exited, by return or by unwinding, while
\* the outer call's entry is on the stack.
C28_Witness ==
    \E t \in Threads :
        /\ last[t].pushed
        /\ Len(last[t].saved) >= 1
        /\ last[t].saved[1].ptr # last[t].ctx
        /\ last[t].after = last[t].saved

\* ================================================= SpecSet: the three setters
\* The host sets a global, an array element and an object property to host values,
\* maps with keys of every kind among them. heap is the engine's objects (a = [1] and
\* o = {k: 1} of the script, and what the conversions create), handles the boxes of a
\* and o, run the global g, the last call and what it left pending.

\* Number of set calls in one run.
MaxSets == 2

SetOps == {"setGlobal", "arraySet", "objectSet"}
\* Keys that become property names, and a null, a Long, a list and a lambda.
MapKeys ==
    {HText("String", "a"), HInt(41), HText("Float", "1.5"), HBool(TRUE),
     HostNull, HLong(TwoTo53), HList("ArrayList", <<>>), HText("Function", "lambda")}
SetInputs ==
    {HMap(<<[key |-> k, value |-> v]>>) : k \in MapKeys, v \in {HInt(1), HText("String", "x")}}
    \cup {HMap(<<[key |-> HText("String", "a"), value |-> HInt(1)], [key |-> k, value |-> HInt(2)]>>) :
             k \in {HInt(41), HLong(TwoTo53)}}
    \cup {HInt(7), HText("BigDecimal", "1.5")}

SetIdle ==
    [state |-> "set", n |-> 0, op |-> "none", hin |-> NoHV, ok |-> TRUE,
     out |-> NoPending, global |-> [SV("int") EXCEPT !.i = 5],
     before |-> <<>>]

InitSet ==
    /\ InitCommon
    /\ run = SetIdle
    /\ heap = ScriptHeap
    /\ handles = <<Handle("array", 1), Handle("object", 2)>>
    /\ cv = NoConv

\* The values of g, a[0] and o.k.
Targets(global, objs) == <<global, objs[1].items[1], objs[2].props[1].value>>

\* Ctx::catch (context.rs 155) after a failed conversion: the exception the engine
\* holds, which is the SyntaxError of the decimal literal (java_js_proxy.rs 754), or
\* nothing when into_atom returned Error::Exception without throwing (726).
CatchAfter(j) ==
    IF j.val.s = "SyntaxError"
    THEN [NoThrown EXCEPT !.kind = "exception", !.message = "unexpected token",
                          !.stack = ScriptStack, !.fileName = "eval_script", !.lineNumber = 1]
    ELSE NoThrown

\* What a successful set stores (context.rs 295, js_array.rs 124, js_object.rs 122).
Store(op, val, global, objs) ==
    CASE op = "setGlobal" -> [global |-> val, objs |-> objs]
      [] op = "arraySet"  -> [global |-> global, objs |-> [objs EXCEPT ![1].items = <<val>>]]
      [] op = "objectSet" ->
             [global |-> global, objs |-> [objs EXCEPT ![2].props = <<[@[1] EXCEPT !.value = val]>>]]

\* setGlobal("g", v), a.set(0, v), o.set("k", v): from_object, then the set with the
\* conversion of the value in it, then handle_exception when the set failed
\* (context.rs 279-303, js_array.rs 118-128, js_object.rs 115-126).
SetValue(op, v) ==
    /\ run.state = "set"
    /\ run.n < MaxSets
    /\ LET r == FromObject(v)
           j == IntoJs(r.pv, Len(heap), handles, FALSE)
           st == Store(op, j.val, run.global, heap \o j.fresh)
           before == Targets(run.global, heap)
       IN  /\ r.ok
           /\ IF j.ok
              THEN /\ heap' = st.objs
                   /\ run' = [run EXCEPT !.n = @ + 1, !.op = op, !.hin = v, !.ok = TRUE,
                                         !.out = NoPending, !.global = st.global,
                                         !.before = before]
              ELSE /\ heap' = heap
                   /\ run' = [run EXCEPT !.n = @ + 1, !.op = op, !.hin = v, !.ok = FALSE,
                                         !.out = HandleException(EngineException(CatchAfter(j)),
                                                                 "reported").exc,
                                         !.before = before]
    /\ UNCHANGED <<handles>>

NextSet ==
    \/ \E op \in SetOps, v \in SetInputs :
          SetValue(op, v) /\ UNCHANGED <<ctxBox, ctxStack, engine, frames, fault, last, cv>>

SpecSet == InitSet /\ [][NextSet]_vars

\* Some key of the map is of a kind that does not become a property name.
HasOtherKey(hv) ==
    \E i \in 1..Len(hv.entries) :
        hv.entries[i].key.cls \notin {"String", "Integer", "Float", "Double", "Boolean"}

\* C30: a host map converts to a script object only when every key converts to a
\* String, Int, Float or Bool. A map with a key of any other kind (null, 64-bit
\* integer, collection, callable) makes the set global, array set or object set fail
\* with a host script exception that carries the generic unknown-exception message,
\* and the global, the element or the property keeps the value it had.
C30_MapKeysMustBeAtoms ==
    (run.op # "none" /\ run.hin.cls = "HashMap") =>
        /\ run.ok => ~HasOtherKey(run.hin)
        /\ HasOtherKey(run.hin) =>
              /\ ~run.ok
              /\ run.out = MessageOnly(UnknownType)
              /\ Targets(run.global, heap) = run.before

\* After a set that changed a[0], an array set of a map with a Long key has failed.
C30_Witness ==
    /\ run.op = "arraySet"
    /\ run.hin = HMap(<<[key |-> HLong(TwoTo53), value |-> HInt(1)]>>)
    /\ ~run.ok
    /\ run.n = 2
    /\ run.before[2] # [SV("int") EXCEPT !.i = 1]

=============================================================================
